---- MODULE Spec2Model ----
(***************************************************************************)
(* State-machine model of the i18n library: the tree walker and translate  *)
(* generator (lib/i18n.js), the Engine wrapper over i18next                *)
(* (lib/Engine.js), the formatter and the Redis/LRU Loader (lib/Loader.js).*)
(*                                                                         *)
(* JavaScript values are tagged records.  Plain objects keep their         *)
(* properties as a sequence of <<name, value>> pairs so that Object.keys   *)
(* order (insertion order) is part of the value.  Strings are TLA+ strings *)
(* and concatenation is string concatenation.                              *)
(***************************************************************************)
EXTENDS Integers, Sequences, FiniteSets, TLC

VARIABLES
  config,     \* the _config object shared by the module engine and its clones
  language,   \* language of the module-level i18next instance (_engine.locale)
  logger,     \* logger of the module-level engine
  remote,     \* the Redis hashes: key -> (locale field -> template)
  store,      \* i18next resource store, shared by every cloneInstance()
  cache,      \* Loader._cache (lru-cache): key -> (locale -> template)
  redis,      \* Loader.redis: "none" (no client), "up" or "down" (client, server state)
  loader,     \* Loader._config.url is set, and the Redis clients created and not quit
  call,       \* the translate() generators in flight, per caller
  api,        \* the last direct call of an exported function, with its outcome
  _connections,  \* mongo helper: name -> connection promise (a connection attempt)
  _databases,    \* mongo helper: name -> database pointer (the attempt it came from)
  attempts,   \* the MongoClient.connect promises, in the order they were started
  disconnects \* the promises returned by the mongo helper's disconnect()

\* the state of the mongo helper
mongo == <<_connections, _databases, attempts, disconnects>>

\* what the translate() machinery leaves alone
helpers == <<api, mongo>>

vars == <<config, language, logger, remote, store, cache, redis, loader, call, helpers>>

-----------------------------------------------------------------------------
(* JavaScript values *)

Null == [t |-> "null"]

Undefined == [t |-> "undefined"]

Num(n) == [t |-> "number", n |-> n]

Bool(b) == [t |-> "boolean", b |-> b]

Str(s) == [t |-> "string", s |-> s]

Obj(kv) == [t |-> "object", kv |-> kv]

Arr(xs) == [t |-> "array", xs |-> xs]

\* an instance of a class exposing toJSON(), which returns `json`
Inst(json) == [t |-> "instance", json |-> json]

Err(msg) == [t |-> "error", msg |-> msg]

\* the generator function returned by Engine.t(translate)
Gen(translate) == [t |-> "generator", translate |-> translate]

IsNum(v) == v.t = "number"

IsStr(v) == v.t = "string"

IsObj(v) == v.t = "object"

IsArr(v) == v.t = "array"

Names(o) == {o.kv[i][1] : i \in 1..Len(o.kv)}

Has(o, name) == IsObj(o) /\ name \in Names(o)

\* o[name]
Get(o, name) ==
  IF Has(o, name)
  THEN o.kv[CHOOSE i \in 1..Len(o.kv) : o.kv[i][1] = name][2]
  ELSE Undefined

\* o[name] = v
Put(o, name, v) ==
  IF Has(o, name)
  THEN Obj([i \in 1..Len(o.kv) |->
              IF o.kv[i][1] = name THEN <<name, v>> ELSE o.kv[i]])
  ELSE Obj(Append(o.kv, <<name, v>>))

\* JavaScript truthiness of the values the model uses
Truthy(v) ==
  CASE v.t = "null" -> FALSE
    [] v.t = "undefined" -> FALSE
    [] v.t = "string" -> v.s # ""
    [] v.t = "number" -> v.n # 0
    [] v.t = "boolean" -> v.b
    [] OTHER -> TRUE

RECURSIVE Flatten(_)
Flatten(ss) == IF ss = <<>> THEN <<>> ELSE Head(ss) \o Flatten(Tail(ss))

-----------------------------------------------------------------------------
(* lib/i18n.js: node validation and the tree walker *)

TRANSLATE_SYMBOL == "@translate"

\* tv4's JSON-schema "type": "object" (arrays and null are other types)
TypeObject(v) == v.t \in {"object", "instance"}

\* tv4.validateResult(node, TRANSLATE_SCHEMA).valid: "@translate" is required
\* and is the only property allowed at the top level (additionalProperties:
\* false); inside it "key" is required and the four declared properties are
\* typed, other properties being unconstrained.
_validateNode(node) ==
  /\ IsObj(node)
  /\ TRANSLATE_SYMBOL \in Names(node)
  /\ Names(node) \subseteq {TRANSLATE_SYMBOL}
  /\ LET tr == Get(node, TRANSLATE_SYMBOL)
     IN /\ IsObj(tr)
        /\ Has(tr, "key") /\ IsStr(Get(tr, "key"))
        /\ Has(tr, "quantity") => IsNum(Get(tr, "quantity"))
        /\ Has(tr, "placeholders") => TypeObject(Get(tr, "placeholders"))
        /\ Has(tr, "fallback") => IsStr(Get(tr, "fallback"))

\* _walk and _walkArrayOrObject: {res, keys}.  A valid node becomes the
\* generator function of engine.t(node["@translate"]); a plain object or an
\* array is shallow-copied and each property walked in Object.keys order; an
\* object with toJSON is replaced by its JSON form; anything else is kept.
RECURSIVE _walk(_)
\* _walk with a loop that skips the properties holding null
_walkSkippingNull(object) ==
  IF _validateNode(object)
  THEN [res |-> Gen(Get(object, TRANSLATE_SYMBOL)),
        keys |-> <<Get(Get(object, TRANSLATE_SYMBOL), "key").s>>]
  ELSE IF IsObj(object)
  THEN LET kv == SelectSeq(object.kv, LAMBDA p : p[2].t # "null")
           w == [i \in 1..Len(kv) |-> _walk(kv[i][2])]
       IN [res |-> Obj([i \in 1..Len(kv) |-> <<kv[i][1], w[i].res>>]),
           keys |-> Flatten([i \in 1..Len(kv) |-> w[i].keys])]
  ELSE IF IsArr(object)
  THEN LET w == [i \in 1..Len(object.xs) |-> _walk(object.xs[i])]
       IN [res |-> Arr([i \in 1..Len(object.xs) |-> w[i].res]),
           keys |-> Flatten([i \in 1..Len(object.xs) |-> w[i].keys])]
  ELSE IF object.t = "instance"
  THEN _walk(object.json)
  ELSE [res |-> object, keys |-> <<>>]

\* _walkArrayOrObject collecting the keys of an array from its last element
_walkKeysReversed(object) ==
  IF _validateNode(object)
  THEN [res |-> Gen(Get(object, TRANSLATE_SYMBOL)),
        keys |-> <<Get(Get(object, TRANSLATE_SYMBOL), "key").s>>]
  ELSE IF IsObj(object)
  THEN LET w == [i \in 1..Len(object.kv) |-> _walk(object.kv[i][2])]
       IN [res |-> Obj([i \in 1..Len(object.kv) |-> <<object.kv[i][1], w[i].res>>]),
           keys |-> Flatten([i \in 1..Len(object.kv) |-> w[i].keys])]
  ELSE IF IsArr(object)
  THEN LET w == [i \in 1..Len(object.xs) |-> _walk(object.xs[i])]
       IN [res |-> Arr([i \in 1..Len(object.xs) |-> w[i].res]),
           keys |-> Flatten([i \in 1..Len(object.xs) |->
                               w[Len(object.xs) + 1 - i].keys])]
  ELSE IF object.t = "instance"
  THEN _walk(object.json)
  ELSE [res |-> object, keys |-> <<>>]

_walk(object) ==
  IF _validateNode(object)
  THEN [res |-> Gen(Get(object, TRANSLATE_SYMBOL)),
        keys |-> <<Get(Get(object, TRANSLATE_SYMBOL), "key").s>>]
  ELSE IF IsObj(object)
  THEN LET w == [i \in 1..Len(object.kv) |-> _walk(object.kv[i][2])]
       IN [res |-> Obj([i \in 1..Len(object.kv) |-> <<object.kv[i][1], w[i].res>>]),
           keys |-> Flatten([i \in 1..Len(object.kv) |-> w[i].keys])]
  ELSE IF IsArr(object)
  THEN LET w == [i \in 1..Len(object.xs) |-> _walk(object.xs[i])]
       IN [res |-> Arr([i \in 1..Len(object.xs) |-> w[i].res]),
           keys |-> Flatten([i \in 1..Len(object.xs) |-> w[i].keys])]
  ELSE IF object.t = "instance"
  THEN _walk(object.json)
  ELSE [res |-> object, keys |-> <<>>]

-----------------------------------------------------------------------------
(* i18next as lib/Engine.js configures and calls it *)

DEFAULT_LOCALE == "en"

\* Engine.init passes lng and interpolation only: fallbackLng keeps i18next's
\* default
FallbackLng == "dev"

\* the language part of a locale tag: "en-GB" -> "en"
LanguagePart(code) ==
  CASE code = "en-GB" -> "en"
    [] code = "fr-FR" -> "fr"
    [] OTHER -> code

\* languageUtils.toResolveHierarchy: the tag, its language part, fallbackLng
toResolveHierarchy(code) ==
  <<code>>
  \o (IF LanguagePart(code) # code THEN <<LanguagePart(code)>> ELSE <<>>)
  \o (IF FallbackLng \notin {code, LanguagePart(code)} THEN <<FallbackLng>> ELSE <<>>)

\* pluralResolver.getSuffix: "" / "_plural" for the two-form languages
\* (n != 1 for en, n > 1 for fr), "_<index>" for Arabic's six forms
getSuffix(code, count) ==
  LET lang == LanguagePart(code)
      n == count
  IN CASE lang = "fr" -> IF n > 1 THEN "_plural" ELSE ""
       [] lang = "ar" ->
            "_" \o ToString(CASE n = 0 -> 0
                              [] n = 1 -> 1
                              [] n = 2 -> 2
                              [] n % 100 >= 3 /\ n % 100 <= 10 -> 3
                              [] n % 100 >= 11 -> 4
                              [] OTHER -> 5)
       [] OTHER -> IF n # 1 THEN "_plural" ELSE ""

NotFound == [found |-> FALSE]

Found(s) == [found |-> TRUE, s |-> s]

\* resourceStore.getResource(code, "translation", key)
getResource(st, code, key) ==
  IF code \in DOMAIN st /\ key \in DOMAIN st[code]
  THEN Found(st[code][key])
  ELSE NotFound

\* translator.resolve(key, options): the codes of the hierarchy in order and,
\* per code, the plural-suffixed key (when options.count is a number) before
\* the bare key
RECURSIVE resolveCodes(_, _, _, _)
resolveCodes(st, codes, key, count) ==
  IF codes = <<>> THEN NotFound
  ELSE LET code == Head(codes)
           plural == IF IsNum(count)
                     THEN getResource(st, code, key \o getSuffix(code, count.n))
                     ELSE NotFound
       IN IF plural.found THEN plural
          ELSE IF getResource(st, code, key).found THEN getResource(st, code, key)
          ELSE resolveCodes(st, Tail(codes), key, count)

resolve(st, lng, key, count) == resolveCodes(st, toResolveHierarchy(lng), key, count)

\* i18next.exists(key): called by Engine.t without options, hence without count
exists(st, lng, key) == resolve(st, lng, key, Undefined).found

\* The interpolation markers of the strings the model uses: the text before
\* the marker, the placeholder name, the format name ("" for {{name}}) and the
\* text after it.  A string that is not listed holds no marker.
Markers ==
  [s \in {"Hello {{john}}", "Good bye {{john}}", "one dog called {{dog}}",
          "{{count}} dogs", "{{count}} cats", "a horde of {{count}} dogs", "{{date, datetime}}",
          "Today is {{date, date}}", "{{price, currency}}", "Il est {{date, monformat}}"} |->
     CASE s = "Hello {{john}}" -> [pre |-> "Hello ", ph |-> "john", fmt |-> "", post |-> ""]
       [] s = "Good bye {{john}}" -> [pre |-> "Good bye ", ph |-> "john", fmt |-> "", post |-> ""]
       [] s = "one dog called {{dog}}" -> [pre |-> "one dog called ", ph |-> "dog", fmt |-> "", post |-> ""]
       [] s = "{{count}} dogs" -> [pre |-> "", ph |-> "count", fmt |-> "", post |-> " dogs"]
       [] s = "{{count}} cats" -> [pre |-> "", ph |-> "count", fmt |-> "", post |-> " cats"]
       [] s = "a horde of {{count}} dogs" -> [pre |-> "a horde of ", ph |-> "count", fmt |-> "", post |-> " dogs"]
       [] s = "{{date, datetime}}" -> [pre |-> "", ph |-> "date", fmt |-> "datetime", post |-> ""]
       [] s = "Today is {{date, date}}" -> [pre |-> "Today is ", ph |-> "date", fmt |-> "date", post |-> ""]
       [] s = "{{price, currency}}" -> [pre |-> "", ph |-> "price", fmt |-> "currency", post |-> ""]
       [] OTHER -> [pre |-> "Il est ", ph |-> "date", fmt |-> "monformat", post |-> ""]]

Tokens(s) ==
  IF s \in DOMAIN Markers THEN Markers[s]
  ELSE [pre |-> s, ph |-> "", fmt |-> "", post |-> ""]

\* i18next's makeString: '' + value, undefined and null giving ''
makeString(v) ==
  CASE v.t = "string" -> v.s
    [] v.t = "number" -> ToString(v.n)
    [] v.t = "boolean" -> IF v.b THEN "true" ELSE "false"
    [] v.t \in {"undefined", "null"} -> ""
    [] OTHER -> "[object Object]"

Returned(v) == [threw |-> FALSE, v |-> v]

Thrown(msg) == [threw |-> TRUE, error |-> Err(msg)]

-----------------------------------------------------------------------------
(* lib/formatter.js *)

\* getValidTimezone preferring the engine's timezone
getValidTimezoneEngineFirst(timezone, engineTimezone) ==
  IF Truthy(engineTimezone) THEN engineTimezone ELSE timezone

\* getValidTimezone: timezone || engine.timezone
getValidTimezone(timezone, engineTimezone) ==
  IF Truthy(timezone) THEN timezone ELSE engineTimezone

\* localeDate + format(pattern): moment(value).locale(locale), moved to the
\* valid timezone when there is one.  The text names the instant, the zone it
\* is shown in ("" for the instant's own zone) and the locale.
localeDate(date, pattern, locale, engineTimezone) ==
  IF date.t \in {"undefined", "null"}
  THEN Thrown("Cannot destructure value")
  ELSE LET zone == getValidTimezone(Get(date, "timezone"), engineTimezone)
       IN Returned(Str(pattern \o "(" \o makeString(Get(date, "value")) \o ")@"
                       \o (IF Truthy(zone) THEN makeString(zone) ELSE "") \o "/" \o locale))

\* formatCurrency: Intl.NumberFormat throws without a currency code
formatCurrency(amount, locale) ==
  IF amount.t \in {"undefined", "null"}
  THEN Thrown("Cannot destructure value")
  ELSE IF ~Truthy(Get(amount, "currency"))
  THEN Thrown("Currency code is required when style is currency")
  ELSE Returned(Str(makeString(Get(amount, "value")) \o " "
                    \o makeString(Get(amount, "currency")) \o "/" \o locale))

\* formatter(value, format, locale, engine): an unknown format returns the value
formatter(value, format, locale, engineTimezone) ==
  CASE format = "date" -> localeDate(value, "LL", locale, engineTimezone)
    [] format = "time" -> localeDate(value, "LT", locale, engineTimezone)
    [] format = "datetime" -> localeDate(value, "LLLL", locale, engineTimezone)
    [] format = "currency" -> formatCurrency(value, locale)
    [] OTHER -> Returned(value)

-----------------------------------------------------------------------------
(* lib/Engine.js *)

\* interpolator.interpolate(str, data, lng): {{name}} is replaced by the
\* stringified data[name], {{name, format}} by the stringified result of the
\* interpolation.format callback Engine.init installs
interpolate(str, data, lng, engineTimezone) ==
  LET tok == Tokens(str)
  IN IF tok.ph = "" THEN Returned(Str(str))
     ELSE IF tok.fmt = ""
     THEN Returned(Str(tok.pre \o makeString(Get(data, tok.ph)) \o tok.post))
     ELSE LET f == formatter(Get(data, tok.ph), tok.fmt, lng, engineTimezone)
          IN IF f.threw THEN f
             ELSE Returned(Str(tok.pre \o makeString(f.v) \o tok.post))

\* i18next.t returning the empty string for a key it does not find
i18nextTEmptyOnMiss(st, lng, engineTimezone, key, options) ==
  LET r == resolve(st, lng, key, Get(options, "count"))
  IN interpolate(IF r.found THEN r.s ELSE "", options, lng, engineTimezone)

\* i18next.t(key, options): the resolved template, or the key itself when
\* nothing is found, interpolated with the options
i18nextT(st, lng, engineTimezone, key, options) ==
  LET r == resolve(st, lng, key, Get(options, "count"))
  IN interpolate(IF r.found THEN r.s ELSE key, options, lng, engineTimezone)

\* Engine.t without `placeholders.count = quantity`
EngineTNoCount(st, lng, engineTimezone, translate) ==
  LET key == Get(translate, "key").s
      placeholders == IF Get(translate, "placeholders").t # "undefined"
                      THEN Get(translate, "placeholders") ELSE Obj(<<>>)
      fallback == Get(translate, "fallback")
      r == IF ~exists(st, lng, key) /\ Truthy(fallback)
           THEN i18nextT(st, lng, engineTimezone, fallback.s, placeholders)
           ELSE i18nextT(st, lng, engineTimezone, key, placeholders)
  IN IF r.threw
     THEN [ret |-> Put(translate, "error", r.error),
           translate |-> Put(translate, "error", r.error), logged |-> TRUE]
     ELSE [ret |-> r.v, translate |-> translate, logged |-> FALSE]

\* The body of the generator Engine.t(translate) returns: {ret, translate},
\* the value it returns and the translate object as it leaves it.
\* `placeholders` is the node's own object when it has one, so setting count
\* on it and setting translate.error both write to the caller's node.
EngineT(st, lng, engineTimezone, translate) ==
  LET key == Get(translate, "key").s
      own == Get(translate, "placeholders").t # "undefined"
      placeholders == IF own THEN Get(translate, "placeholders") ELSE Obj(<<>>)
      quantity == Get(translate, "quantity")
      fallback == Get(translate, "fallback")
      counted == IF IsNum(quantity) /\ IsObj(placeholders)
                 THEN Put(placeholders, "count", quantity)
                 ELSE placeholders
      tr == IF own THEN Put(translate, "placeholders", counted) ELSE translate
      r == IF ~exists(st, lng, key) /\ Truthy(fallback)
           THEN i18nextT(st, lng, engineTimezone, fallback.s, counted)
           ELSE i18nextT(st, lng, engineTimezone, key, counted)
  IN IF r.threw
     THEN [ret |-> Put(tr, "error", r.error), translate |-> Put(tr, "error", r.error),
           logged |-> TRUE]
     ELSE [ret |-> r.v, translate |-> tr, logged |-> FALSE]

\* getLocales listing the default locale first
getLocalesDefaultFirst(locale) ==
  IF locale # DEFAULT_LOCALE THEN <<DEFAULT_LOCALE, locale>> ELSE <<DEFAULT_LOCALE>>

\* Engine.getLocales
getLocales(locale) ==
  IF locale # DEFAULT_LOCALE THEN <<locale, DEFAULT_LOCALE>> ELSE <<DEFAULT_LOCALE>>

\* Engine.addTranslations(locale, translations):
\* addResourceBundle(locale, 'translation', translations, true) extends the
\* bundle deeply without the overwrite flag, so a key the store already holds
\* keeps its template
addTranslations(st, locale, templates) ==
  IF locale \in DOMAIN st
  THEN [st EXCEPT ![locale] = st[locale] @@ templates]
  ELSE (locale :> templates) @@ st

-----------------------------------------------------------------------------
(* lib/i18n.js: `yield res` under co, and what the generators leave in the
   caller's object *)

\* co resolves generator functions found in plain objects and arrays, at any
\* depth, and keeps every other value
RECURSIVE Resolved(_, _, _, _)
\* co resolving the generator functions of the first level only
ResolvedShallow(res, st, lng, engineTimezone) ==
  LET one(v) == IF v.t = "generator"
                THEN EngineT(st, lng, engineTimezone, v.translate).ret ELSE v
  IN CASE res.t = "generator" -> one(res)
       [] res.t = "object" ->
            Obj([i \in 1..Len(res.kv) |-> <<res.kv[i][1], one(res.kv[i][2])>>])
       [] res.t = "array" -> Arr([i \in 1..Len(res.xs) |-> one(res.xs[i])])
       [] OTHER -> res

\* co leaving a generator function whose body raises unresolved
ResolvedFailFast(res, st, lng, engineTimezone) ==
  CASE res.t = "generator" ->
         IF EngineT(st, lng, engineTimezone, res.translate).logged THEN res
         ELSE EngineT(st, lng, engineTimezone, res.translate).ret
    [] res.t = "object" ->
         Obj([i \in 1..Len(res.kv) |->
                <<res.kv[i][1], Resolved(res.kv[i][2], st, lng, engineTimezone)>>])
    [] res.t = "array" ->
         Arr([i \in 1..Len(res.xs) |-> Resolved(res.xs[i], st, lng, engineTimezone)])
    [] OTHER -> res

Resolved(res, st, lng, engineTimezone) ==
  CASE res.t = "generator" -> EngineT(st, lng, engineTimezone, res.translate).ret
    [] res.t = "object" ->
         Obj([i \in 1..Len(res.kv) |->
                <<res.kv[i][1], Resolved(res.kv[i][2], st, lng, engineTimezone)>>])
    [] res.t = "array" ->
         Arr([i \in 1..Len(res.xs) |-> Resolved(res.xs[i], st, lng, engineTimezone)])
    [] OTHER -> res

\* try { return yield res } catch (error) { return res }: co rejects a yielded
\* value that is no function, generator, array or object, and res is returned
\* `return yield res` without the try/catch: co's TypeError reaches the caller
YieldResNoCatch(res, st, lng, engineTimezone) ==
  IF res.t \in {"generator", "object", "array"}
  THEN Resolved(res, st, lng, engineTimezone)
  ELSE Err("You may only yield a function, promise, generator, array, or object")

YieldRes(res, st, lng, engineTimezone) ==
  IF res.t \in {"generator", "object", "array"}
  THEN Resolved(res, st, lng, engineTimezone)
  ELSE res

\* The caller's object once every generator has run: _walk copies the objects
\* and arrays it walks into but hands node["@translate"] itself to Engine.t
RECURSIVE Written(_, _, _, _)
Written(object, st, lng, engineTimezone) ==
  IF _validateNode(object)
  THEN Obj(<< <<TRANSLATE_SYMBOL,
                EngineT(st, lng, engineTimezone, Get(object, TRANSLATE_SYMBOL)).translate>> >>)
  ELSE IF IsObj(object)
  THEN Obj([i \in 1..Len(object.kv) |->
              <<object.kv[i][1], Written(object.kv[i][2], st, lng, engineTimezone)>>])
  ELSE IF IsArr(object)
  THEN Arr([i \in 1..Len(object.xs) |-> Written(object.xs[i], st, lng, engineTimezone)])
  ELSE object

-----------------------------------------------------------------------------
(* lib/Loader.js *)

EmptyMap == <<>>

\* the Redis hashes the test suites set up: key -> (locale field -> template)
Remote ==
  ("howdy" :> ("en" :> "Howdy" @@ "fr" :> "Hey"))
  @@ ("hello-john" :> ("en" :> "Hello {{john}}"))

\* _.pick(value, ...locales)
Pick(value, locales) ==
  [l \in DOMAIN value \cap {locales[j] : j \in 1..Len(locales)} |-> value[l]]

\* Loader.getItemFromCache(key, ...locales)
getItemFromCache(ch, key, locales) ==
  LET value == IF key \in DOMAIN ch THEN ch[key] ELSE EmptyMap
  IN IF Len(locales) > 0 THEN Pick(value, locales) ELSE value

\* setItemToCache storing the given mapping in place of the cached one
setItemToCacheReplacing(ch, key, translations) ==
  (key :> translations) @@ ch

\* Loader.setItemToCache(key, translations)
setItemToCache(ch, key, translations) ==
  (key :> (translations @@ getItemFromCache(ch, key, <<>>))) @@ ch

\* Loader.loadFromCache: {translations, unknown}.  Object.assign copies the
\* per-locale objects of one key over those of the keys before it.
RECURSIVE loadFromCache(_, _, _)
\* loadFromCache looking a key up under the first consulted locale only
loadFromCacheFirstLocale(ch, locales, keys) ==
  IF keys = <<>> THEN [translations |-> EmptyMap, unknown |-> <<>>]
  ELSE LET front == loadFromCache(ch, locales, SubSeq(keys, 1, Len(keys) - 1))
           key == keys[Len(keys)]
           found == getItemFromCache(ch, key, <<locales[1]>>)
       IN IF DOMAIN found # {}
          THEN [translations |-> [l \in DOMAIN found |-> (key :> found[l])]
                                   @@ front.translations,
                unknown |-> front.unknown]
          ELSE [translations |-> front.translations,
                unknown |-> Append(front.unknown, key)]

\* loadFromCache pushing every key to `unknown`, cached or not
loadFromCacheAllUnknown(ch, locales, keys) ==
  IF keys = <<>> THEN [translations |-> EmptyMap, unknown |-> <<>>]
  ELSE LET front == loadFromCache(ch, locales, SubSeq(keys, 1, Len(keys) - 1))
           key == keys[Len(keys)]
           found == getItemFromCache(ch, key, locales)
       IN IF DOMAIN found # {}
          THEN [translations |-> [l \in DOMAIN found |-> (key :> found[l])]
                                   @@ front.translations,
                unknown |-> Append(front.unknown, key)]
          ELSE [translations |-> front.translations,
                unknown |-> Append(front.unknown, key)]

loadFromCache(ch, locales, keys) ==
  IF keys = <<>> THEN [translations |-> EmptyMap, unknown |-> <<>>]
  ELSE LET front == loadFromCache(ch, locales, SubSeq(keys, 1, Len(keys) - 1))
           key == keys[Len(keys)]
           found == getItemFromCache(ch, key, locales)
       IN IF DOMAIN found # {}
          THEN [translations |-> [l \in DOMAIN found |-> (key :> found[l])]
                                   @@ front.translations,
                unknown |-> front.unknown]
          ELSE [translations |-> front.translations,
                unknown |-> Append(front.unknown, key)]

\* multi.hmget(key, ...locales) for each unknown key, multi.exec: one reply
\* per command, one entry per field, null for a field the hash lacks
Exec(unknown, locales) ==
  [i \in 1..Len(unknown) |->
     [j \in 1..Len(locales) |->
        IF unknown[i] \in DOMAIN remote /\ locales[j] \in DOMAIN remote[unknown[i]]
        THEN remote[unknown[i]][locales[j]]
        ELSE ""]]

\* _.set(translations, `${locale}.${key}`, template)
SetPath(translations, locale, key, template) ==
  IF locale \in DOMAIN translations
  THEN [translations EXCEPT ![locale] = (key :> template) @@ translations[locale]]
  ELSE (locale :> (key :> template)) @@ translations

\* Loader.load, "Reformat the translations": the loop runs over keys.entries()
\* and locales.entries(), reads res[i][j] and, for a template that is set,
\* emits 'add' (whose listener is setItemToCache) and sets translations.
\* The state is {translations, cache, added}; n counts the (i, j) pairs done.
RECURSIVE Reformat(_, _, _, _, _)
Reformat(res, keys, locales, acc, n) ==
  IF n = Len(keys) * Len(locales) THEN acc
  ELSE LET i == (n \div Len(locales)) + 1
           j == (n % Len(locales)) + 1
           template == IF i <= Len(res) THEN res[i][j] ELSE ""
           next == IF template # ""
                   THEN [translations |-> SetPath(acc.translations, locales[j], keys[i], template),
                         cache |-> setItemToCache(acc.cache, keys[i], (locales[j] :> template)),
                         added |-> Append(acc.added, <<keys[i], locales[j], template>>)]
                   ELSE acc
       IN Reformat(res, keys, locales, next, n + 1)

\* _.forOwn(translations, (templates, locale) => engine.addTranslations(...))
RECURSIVE AddAll(_, _, _)
AddAll(st, translations, todo) ==
  IF todo = {} THEN st
  ELSE LET locale == CHOOSE l \in todo : TRUE
       IN AddAll(addTranslations(st, locale, translations[locale]), translations,
                 todo \ {locale})

-----------------------------------------------------------------------------
(* The requests the model explores *)

MaxQuantity == 3

Locales == {"en", "fr", "ar", "en-GB"}

Zones == {Str("Europe/Paris"), Str("Europe/London")}

Node(key, rest) == Obj(<< <<TRANSLATE_SYMBOL, Obj(<< <<"key", Str(key)>> >> \o rest)>> >>)

John == <<"placeholders", Obj(<< <<"john", Str("John")>> >>)>>

Dog == <<"placeholders", Obj(<< <<"dog", Str("Rantanplan")>> >>)>>

Date == <<"placeholders", Obj(<< <<"date", Obj(<< <<"value", Str("T0")>> >>)>> >>)>>

Price(currency) ==
  <<"placeholders",
    Obj(<< <<"price", Obj(<< <<"value", Num(12)>>, <<"currency", currency>> >>)>> >>)>>

Fallback(s) == <<"fallback", Str(s)>>

\* placeholders whose price has no currency and whose label is itself a node
PriceAndLabel ==
  <<"placeholders",
    Obj(<< <<"price", Obj(<< <<"value", Num(12)>>, <<"currency", Undefined>> >>)>>,
           <<"label", Node("howdy", <<>>)>> >>)>>

Quantity(q) == <<"quantity", Num(q)>>

Howdy == Node("howdy", <<>>)

HelloJohn == Node("hello-john", <<John>>)

Scalars == {Str("Hello"), Null, Undefined, Num(123), Bool(TRUE)}

DateNodes == {Node("format-date", <<Fallback("{{date, datetime}}"), Date>>)}

Nodes ==
  {Howdy, HelloJohn,
   Node("good-bye-john", <<John, Fallback("Good bye {{john}}")>>),
   Node("missing", <<Fallback("howdy")>>),
   Node("missing", <<>>),
   Node("{{price, currency}}", <<Price(Str("EUR"))>>),
   Node("format-price", <<Fallback("{{price, currency}}"), Price(Undefined)>>),
   Node("format-price", <<Fallback("{{price, currency}}"), PriceAndLabel>>),
   Node("plural-bird", <<Quantity(2), Fallback("a bird")>>),
   Node("howdy", << <<"extra", Num(1)>> >>)}
  \cup {Node("plural-dog", <<Quantity(q), Dog>>) : q \in 0..MaxQuantity}
  \cup {Node("plural-cat", <<Quantity(q)>>) : q \in 0..MaxQuantity}
  \cup DateNodes

Invalid ==
  {Obj(<< <<TRANSLATE_SYMBOL, Obj(<< <<"key", Str("howdy")>> >>)>>, <<"wrong", Str("key")>> >>),
   Node("howdy", << <<"quantity", Str("my quantity")>> >>),
   Obj(<< <<TRANSLATE_SYMBOL, Obj(<< <<"key", Str("howdy")>> >>)>>,
          <<"other", Node("howdy", <<>>)>> >>)}

Composite ==
  {Obj(<< <<"nested", Obj(<< <<"object", Howdy>> >>)>> >>),
   Arr(<<Howdy, HelloJohn>>),
   Inst(Obj(<< <<"salutation", HelloJohn>> >>)),
   Obj(<< <<"someKey", HelloJohn>>, <<"null", Null>>, <<"number", Num(1)>>,
          <<"class", Inst(Obj(<< <<"test", Num(1)>> >>))>>,
          <<"plural", Node("plural-dog", <<Quantity(1), Dog>>)>> >>),
   Obj(<< <<"bad", Node("format-price", <<Fallback("{{price, currency}}"),
                                          Price(Undefined)>>)>>,
          <<"good", HelloJohn>> >>)}

Inputs == Scalars \cup Nodes \cup Invalid \cup Composite

\* the inputs translated in every locale
LocaleInputs ==
  {Howdy, HelloJohn, Arr(<<Howdy, HelloJohn>>), Node("missing", <<Fallback("howdy")>>)}
  \cup {Node("plural-dog", <<Quantity(q), Dog>>) : q \in 0..MaxQuantity}
  \cup {Node("plural-cat", <<Quantity(q)>>) : q \in 0..MaxQuantity}

\* translate(object, locale = 'en', timezone = null): <<object, locale, timezone>>
Requests ==
  {<<o, "en", Null>> : o \in Inputs}
  \cup {<<o, l, Null>> : o \in LocaleInputs, l \in Locales}
  \cup {<<o, l, z>> : o \in DateNodes, l \in {"en", "fr"}, z \in Zones}

\* the requests explored while another call is in flight
OverlapRequests ==
  {<<o, l, z>> : o \in DateNodes, l \in {"en", "fr"}, z \in Zones \cup {Null}}
  \cup {<<Howdy, "fr", Null>>, <<Arr(<<Howdy, HelloJohn>>), "fr", Null>>}

-----------------------------------------------------------------------------
(* State *)

Callers == {"A", "B"}

\* the test suite's translations, added to the module engine before any call,
\* a key whose Arabic bundle holds a _plural form and no indexed form, and a
\* key whose English bundle holds the _plural form only
Bundles ==
  ("ar" :> ("plural-dog" :> "{{count}} dogs"
            @@ "plural-dog_0" :> "no dog"
            @@ "plural-dog_1" :> "one dog called {{dog}}"
            @@ "plural-dog_2" :> "two dogs"
            @@ "plural-dog_3" :> "few dogs"
            @@ "plural-dog_4" :> "many dogs"
            @@ "plural-dog_5" :> "a horde of {{count}} dogs"
            @@ "plural-cat" :> "{{count}} cats"
            @@ "plural-cat_plural" :> "many cats"))
  @@ ("en" :> ("howdy" :> "Howdy"
               @@ "hello-john" :> "Hello {{john}}"
               @@ "plural-dog" :> "one dog called {{dog}}"
               @@ "plural-dog_plural" :> "{{count}} dogs"
               @@ "plural-bird_plural" :> "many birds"))

Idle ==
  [pc |-> "idle", object |-> Undefined, before |-> Undefined, locale |-> "",
   timezone |-> Undefined, language |-> "", shared |-> <<>>, res |-> Undefined,
   keys |-> <<>>, requested |-> <<>>, fields |-> <<>>, translations |-> EmptyMap,
   added |-> <<>>, warned |-> FALSE, out |-> Undefined]

\* no exported function has been called directly
NoCall == [op |-> "none"]

Init ==
  /\ config = [locale |-> Undefined, timezone |-> Undefined]
  /\ language = DEFAULT_LOCALE
  /\ logger = "console"
  /\ remote = Remote
  /\ store = Bundles
  /\ cache = EmptyMap
  /\ redis = "none"
  /\ loader = [url |-> FALSE, open |-> 0]
  /\ call = [c \in Callers |-> Idle]
  /\ api = NoCall
  /\ _connections = EmptyMap
  /\ _databases = EmptyMap
  /\ attempts = <<>>
  /\ disconnects = <<>>

\* translate(), up to `yield engine.init()`: _engine.clone() hands the module
\* engine's _config object itself to the clone, so the clone's locale and
\* timezone setters write to the shared object; the cloned i18next instance
\* has a language of its own.
\* Exploration bound: each caller calls once, and two calls overlap only when
\* both requests are in OverlapRequests.
Translate(c, object, locale, timezone) ==
  /\ call[c].pc = "idle"
  /\ \/ \A d \in Callers \ {c} : call[d].pc \in {"idle", "returned"}
     \/ /\ <<object, locale, timezone>> \in OverlapRequests
        /\ \A d \in Callers \ {c} :
             call[d].pc \notin {"idle", "returned"} =>
               <<call[d].before, call[d].locale, call[d].timezone>> \in OverlapRequests
  /\ config' = [config EXCEPT !.locale = Str(locale), !.timezone = timezone]
  /\ call' = [call EXCEPT ![c] =
                [Idle EXCEPT !.pc = "init", !.object = object, !.before = object,
                             !.locale = locale, !.timezone = timezone,
                             !.language = locale,
                             !.shared = [locale |-> language,
                                         timezone |-> config.timezone,
                                         logger |-> logger]]]
  /\ UNCHANGED <<language, logger, remote, store, cache, redis, loader, helpers>>

\* translate() resumed after engine.init(): _walk, then Loader.load up to its
\* return or to `yield cb => multi.exec(cb)`
Walk(c) ==
  /\ call[c].pc = "init"
  /\ LET w == _walk(call[c].object)
         locales == getLocales(call[c].language)
         fromCache == loadFromCache(cache, locales, w.keys)
     IN IF redis = "none"
        THEN /\ call' = [call EXCEPT ![c].pc = "resolve", ![c].res = w.res,
                                     ![c].keys = w.keys]
             /\ UNCHANGED store
        ELSE IF fromCache.unknown # <<>>
        THEN /\ call' = [call EXCEPT ![c].pc = "remote", ![c].res = w.res,
                                     ![c].keys = w.keys,
                                     ![c].requested = fromCache.unknown,
                                     ![c].fields = locales,
                                     ![c].translations = fromCache.translations]
             /\ UNCHANGED store
        ELSE /\ call' = [call EXCEPT ![c].pc = "resolve", ![c].res = w.res,
                                     ![c].keys = w.keys,
                                     ![c].translations = fromCache.translations]
             /\ store' = AddAll(store, fromCache.translations,
                                DOMAIN fromCache.translations)
  /\ UNCHANGED <<config, language, logger, remote, cache, redis, loader, helpers>>

\* Loader.load leaving out engine.addTranslations after the replies
ReplyWithoutAdd(c) ==
  /\ call[c].pc = "remote"
  /\ redis # "down"
  /\ LET locales == getLocales(call[c].language)
         r == Reformat(Exec(call[c].requested, call[c].fields), call[c].keys, locales,
                       [translations |-> call[c].translations, cache |-> cache,
                        added |-> <<>>], 0)
     IN /\ cache' = r.cache
        /\ call' = [call EXCEPT ![c].pc = "resolve",
                                ![c].translations = r.translations,
                                ![c].added = r.added]
  /\ UNCHANGED <<config, language, logger, remote, store, redis, loader, helpers>>

\* multi.exec calls back with the replies: Loader.load reformats them, writes
\* the cache through the 'add' listener and adds the translations to the engine
Reply(c) ==
  /\ call[c].pc = "remote"
  /\ redis # "down"
  /\ LET locales == getLocales(call[c].language)
         r == Reformat(Exec(call[c].requested, call[c].fields), call[c].keys, locales,
                       [translations |-> call[c].translations, cache |-> cache,
                        added |-> <<>>], 0)
     IN /\ cache' = r.cache
        /\ store' = AddAll(store, r.translations, DOMAIN r.translations)
        /\ call' = [call EXCEPT ![c].pc = "resolve",
                                ![c].translations = r.translations,
                                ![c].added = r.added]
  /\ UNCHANGED <<config, language, logger, remote, redis, loader, helpers>>

\* Loader.load returning the empty mapping from its catch block
ReplyErrorDropsCache(c) ==
  /\ call[c].pc = "remote"
  /\ redis = "down"
  /\ call' = [call EXCEPT ![c].pc = "resolve", ![c].warned = TRUE,
                          ![c].translations = EmptyMap]
  /\ UNCHANGED <<config, language, logger, remote, store, cache, redis, loader, helpers>>

\* Loader.load adding what the cache gave to the engine from its catch block
ReplyErrorAddsCached(c) ==
  /\ call[c].pc = "remote"
  /\ redis = "down"
  /\ call' = [call EXCEPT ![c].pc = "resolve", ![c].warned = TRUE]
  /\ store' = AddAll(store, call[c].translations, DOMAIN call[c].translations)
  /\ UNCHANGED <<config, language, logger, remote, cache, redis, loader, helpers>>

\* multi.exec calls back with an error: the catch block warns, and load
\* returns what the cache gave without adding it to the engine
ReplyError(c) ==
  /\ call[c].pc = "remote"
  /\ redis = "down"
  /\ call' = [call EXCEPT ![c].pc = "resolve", ![c].warned = TRUE]
  /\ UNCHANGED <<config, language, logger, remote, store, cache, redis, loader, helpers>>

\* translate() resumed after the load: `yield res` runs every generator
Resolve(c) ==
  /\ call[c].pc = "resolve"
  /\ call' = [call EXCEPT
                ![c].pc = "done",
                ![c].out = YieldRes(call[c].res, store, call[c].language, config.timezone),
                ![c].object = Written(call[c].object, store, call[c].language,
                                      config.timezone)]
  /\ UNCHANGED <<config, language, logger, remote, store, cache, redis, loader, helpers>>

\* the caller takes the result
Return(c) ==
  /\ call[c].pc = "done"
  /\ call' = [call EXCEPT ![c] = [Idle EXCEPT !.pc = "returned"]]
  /\ UNCHANGED <<config, language, logger, remote, store, cache, redis, loader, helpers>>

\* the configs handed to Loader.init: none, one without a url, one with a url
LoaderConfigs ==
  {Undefined, Obj(<<>>), Obj(<< <<"url", Str("redis://localhost:6379")>> >>)}

\* Loader.init creating a client without quitting the one it has
LoaderInitKeepingClient(cfg, r) ==
  LET url == IF Truthy(cfg) THEN Truthy(Get(cfg, "url")) ELSE loader.url
  IN /\ IF url THEN r \in {"up", "down"} ELSE r = redis
     /\ redis' = r
     /\ loader' = [url |-> url,
                   open |-> loader.open + (IF url THEN 1 ELSE 0)]
     /\ UNCHANGED <<config, language, logger, remote, store, cache, call, helpers>>

\* Loader.init(config): keeps the config when one is given, quits the client
\* it has and creates one when the config has a url; the server answers the
\* new client ("up") or refuses it ("down")
LoaderInit(cfg, r) ==
  LET url == IF Truthy(cfg) THEN Truthy(Get(cfg, "url")) ELSE loader.url
      quit == IF redis # "none" THEN 1 ELSE 0
  IN /\ IF url THEN r \in {"up", "down"} ELSE r = "none"
     /\ redis' = r
     /\ loader' = [url |-> url,
                   open |-> loader.open - quit + (IF url THEN 1 ELSE 0)]
     /\ UNCHANGED <<config, language, logger, remote, store, cache, call, helpers>>

\* Loader.disconnect
Disconnect ==
  /\ redis # "none"
  /\ redis' = "none"
  /\ loader' = [loader EXCEPT !.open = @ - 1]
  /\ UNCHANGED <<config, language, logger, remote, store, cache, call, helpers>>

\* lru-cache drops an entry (maxAge elapsed)
Expire(key) ==
  /\ key \in DOMAIN cache
  /\ cache' = [k \in DOMAIN cache \ {key} |-> cache[k]]
  /\ UNCHANGED <<config, language, logger, remote, store, redis, loader, call, helpers>>

Next ==
  \/ \E c \in Callers, r \in Requests : Translate(c, r[1], r[2], r[3])
  \/ \E c \in Callers : Walk(c)
  \/ \E c \in Callers : Reply(c)
  \/ \E c \in Callers : ReplyError(c)
  \/ \E c \in Callers : Resolve(c)
  \/ \E c \in Callers : Return(c)
  \/ \E cfg \in LoaderConfigs, r \in {"none", "up", "down"} : LoaderInit(cfg, r)
  \/ Disconnect
  \/ \E key \in DOMAIN Remote : Expire(key)

Spec == Init /\ [][Next]_vars

-----------------------------------------------------------------------------
(* Properties of Loader.load *)

\* template is what the remote store holds in field `locale` of hash `key`
IsRemote(key, locale, template) ==
  /\ key \in DOMAIN Remote
  /\ locale \in DOMAIN Remote[key]
  /\ Remote[key][locale] = template

\* the call has been through a load whose remote call succeeded
Loaded(c) ==
  /\ call[c].pc \in {"resolve", "done"}
  /\ call[c].requested # <<>>
  /\ ~call[c].warned

\* C1: in a load whose remote call succeeds, a template is recorded under
\* (locale, key), in the returned mapping, in the cache (the 'add' events) and
\* in the catalog, only if it is the value the remote store returned for field
\* `locale` of hash `key`; this covers key lists of which some keys are cached
\* and others are not.
C1_RecordedIsRemote ==
  /\ \A c \in Callers :
        Loaded(c) =>
          /\ \A l \in DOMAIN call[c].translations :
                \A k \in DOMAIN call[c].translations[l] :
                  IsRemote(k, l, call[c].translations[l][k])
          /\ \A i \in 1..Len(call[c].added) :
                IsRemote(call[c].added[i][1], call[c].added[i][2], call[c].added[i][3])
  /\ \A k \in DOMAIN cache : \A l \in DOMAIN cache[k] : IsRemote(k, l, cache[k][l])
  /\ \A l \in DOMAIN store :
        \A k \in DOMAIN store[l] :
          (l \in DOMAIN Bundles /\ k \in DOMAIN Bundles[l] /\ Bundles[l][k] = store[l][k])
          \/ IsRemote(k, l, store[l][k])

-----------------------------------------------------------------------------
(* Properties of translate *)

\* the step in which the translate call of caller c resolves its nodes
Resolving(c) == call[c].pc = "resolve" /\ call'[c].pc = "done"

\* C2: of two overlapping translate calls, each resolves its nodes in its own
\* locale and formats its dates with its own timezone.
C2_OwnLocaleAndTimezone ==
  [][\A c \in Callers :
       Resolving(c) =>
         call'[c].out = YieldRes(call[c].res, store, call[c].locale, call[c].timezone)]_vars

\* null and undefined both stand for "no timezone"
SameTimezone(a, b) == IF Truthy(a) \/ Truthy(b) THEN a = b ELSE TRUE

\* C3: when a translate call has completed, the shared engine's locale,
\* timezone and logger are what they were before the call.
C3_SharedEngineUnchanged ==
  \A c \in Callers :
    call[c].pc = "done" =>
      /\ language = call[c].shared.locale
      /\ logger = call[c].shared.logger
      /\ SameTimezone(config.timezone, call[c].shared.timezone)

\* C4: translate never mutates its input, nodes with a numeric quantity and
\* placeholders and nodes whose formatter raises included.
C4_InputNotMutated ==
  \A c \in Callers : call[c].pc = "done" => call[c].object = call[c].before

\* out has the shape of the input `in` wherever `in` holds no valid node: the
\* same property names in the same order, the same array length, the same
\* scalars; an object with toJSON is compared through its JSON form
RECURSIVE SameOutsideNodes(_, _)
SameOutsideNodes(in, out) ==
  IF _validateNode(in) THEN TRUE
  ELSE IF IsObj(in)
  THEN /\ IsObj(out)
       /\ Len(out.kv) = Len(in.kv)
       /\ \A i \in 1..Len(in.kv) :
             /\ out.kv[i][1] = in.kv[i][1]
             /\ SameOutsideNodes(in.kv[i][2], out.kv[i][2])
  ELSE IF IsArr(in)
  THEN /\ IsArr(out)
       /\ Len(out.xs) = Len(in.xs)
       /\ \A i \in 1..Len(in.xs) : SameOutsideNodes(in.xs[i], out.xs[i])
  ELSE IF in.t = "instance"
  THEN SameOutsideNodes(in.json, out)
  ELSE out = in

Lost == [tr |-> Undefined, out |-> Undefined]

\* the valid nodes of the input, at any depth, each with the value the output
\* holds at the node's position: {[tr |-> node["@translate"], out |-> value]}
RECURSIVE NodePairs(_, _)
NodePairs(in, out) ==
  IF _validateNode(in) THEN {[tr |-> Get(in, TRANSLATE_SYMBOL), out |-> out]}
  ELSE IF IsObj(in)
  THEN IF IsObj(out) /\ Len(out.kv) = Len(in.kv)
       THEN UNION {NodePairs(in.kv[i][2], out.kv[i][2]) : i \in 1..Len(in.kv)}
       ELSE {Lost}
  ELSE IF IsArr(in)
  THEN IF IsArr(out) /\ Len(out.xs) = Len(in.xs)
       THEN UNION {NodePairs(in.xs[i], out.xs[i]) : i \in 1..Len(in.xs)}
       ELSE {Lost}
  ELSE IF in.t = "instance"
  THEN NodePairs(in.json, out)
  ELSE {}

Key(tr) == Get(tr, "key").s

\* the node's quantity when it is a number
Count(tr) == IF IsNum(Get(tr, "quantity")) THEN Get(tr, "quantity") ELSE Undefined

\* the node's placeholders, with the quantity as `count` when it is a number
Options(tr) ==
  LET placeholders == IF Has(tr, "placeholders") THEN Get(tr, "placeholders")
                      ELSE Obj(<<>>)
  IN IF IsNum(Get(tr, "quantity"))
     THEN Put(placeholders, "count", Get(tr, "quantity"))
     ELSE placeholders

\* out is `text` interpolated with the node's placeholders, in the call's
\* locale; nothing is said of an interpolation whose formatter raises
Interpolated(out, text, tr, lng, engineTimezone) ==
  LET e == interpolate(text, Options(tr), lng, engineTimezone)
  IN ~e.threw => out = e.v

\* C6: for every valid node whose key has a template in the catalog for the
\* request locale, at any depth inside objects and arrays, the output holds at
\* the node's position the string obtained by interpolating that template (its
\* plural form when the node has a numeric quantity and the locale holds that
\* form) with the node's placeholders.
C6_CatalogTemplateInterpolated ==
  [][\A c \in Callers :
       Resolving(c) =>
         \A p \in NodePairs(call[c].object, call'[c].out) :
           /\ p # Lost
           /\ getResource(store, call[c].locale, Key(p.tr)).found =>
                Interpolated(p.out,
                             resolveCodes(store, <<call[c].locale>>, Key(p.tr),
                                          Count(p.tr)).s,
                             p.tr, call[c].locale, config.timezone)]_vars

\* a call has returned {nested: {object: "Howdy"}} for a node two levels deep
C6_Witness ==
  \E c \in Callers :
    /\ call[c].pc = "done"
    /\ call[c].before = Obj(<< <<"nested", Obj(<< <<"object", Howdy>> >>)>> >>)
    /\ call[c].out = Obj(<< <<"nested", Obj(<< <<"object", Str("Howdy")>> >>)>> >>)

\* no locale the lookup may consult holds a template for the node's key, its
\* plural forms included
Missing(st, lng, tr) ==
  ~resolveCodes(st, getLocales(lng) \o toResolveHierarchy(lng), Key(tr), Count(tr)).found

\* C7 (as stated): a valid node whose key has no template in the catalog after
\* loading, and which has no fallback, is replaced by its key string verbatim.
C7_MissingKeyVerbatim ==
  [][\A c \in Callers :
       Resolving(c) =>
         \A p \in NodePairs(call[c].object, call'[c].out) :
           /\ p # Lost
           /\ (~Has(p.tr, "fallback") /\ Missing(store, call[c].locale, p.tr)) =>
                p.out = Str(Key(p.tr))]_vars

\* C7 (amended): a valid node whose key has no template in the catalog after
\* loading, and which has no fallback, is replaced by its key string
\* interpolated with the node's placeholders, which is the key verbatim when
\* the key holds no {{...}} marker; this holds with no remote store, with a
\* disconnected one, and with one that lacks the key.
C7_MissingKeyInterpolated ==
  [][\A c \in Callers :
       Resolving(c) =>
         \A p \in NodePairs(call[c].object, call'[c].out) :
           /\ p # Lost
           /\ (~Has(p.tr, "fallback") /\ Missing(store, call[c].locale, p.tr)) =>
                /\ Interpolated(p.out, Key(p.tr), p.tr, call[c].locale, config.timezone)
                /\ Key(p.tr) \notin DOMAIN Markers => p.out = Str(Key(p.tr))]_vars

\* a call has returned "missing" for the node {key: "missing"} after the
\* remote store was asked for the key and did not hold it
C7_Witness ==
  \E c \in Callers :
    /\ call[c].pc = "done"
    /\ call[c].before = Node("missing", <<>>)
    /\ call[c].requested = <<"missing">>
    /\ ~call[c].warned
    /\ call[c].out = Str("missing")

\* C8: a valid node whose key has no template in the catalog and which has a
\* fallback is replaced by the fallback text itself, interpolated with the
\* node's placeholders, whatever the catalog holds: the fallback is never
\* looked up as a catalog key.
C8_FallbackTextItself ==
  [][\A c \in Callers :
       Resolving(c) =>
         \A p \in NodePairs(call[c].object, call'[c].out) :
           /\ p # Lost
           /\ (IsStr(Get(p.tr, "fallback")) /\ Missing(store, call[c].locale, p.tr)) =>
                Interpolated(p.out, Get(p.tr, "fallback").s, p.tr, call[c].locale,
                             config.timezone)]_vars

\* C9: the lookup of a node's key consults the request locale first and the
\* default locale "en" second: a key the request locale lacks and "en" holds
\* is rendered with the "en" template, and the node's fallback is used only
\* when neither holds the key.
C9_DefaultLocaleSecond ==
  [][\A c \in Callers :
       Resolving(c) =>
         \A p \in NodePairs(call[c].object, call'[c].out) :
           LET own == resolveCodes(store, <<call[c].locale>>, Key(p.tr), Count(p.tr))
               default == resolveCodes(store, <<DEFAULT_LOCALE>>, Key(p.tr), Count(p.tr))
           IN /\ p # Lost
              /\ own.found =>
                   Interpolated(p.out, own.s, p.tr, call[c].locale, config.timezone)
              /\ (~own.found /\ default.found) =>
                   Interpolated(p.out, default.s, p.tr, call[c].locale,
                                config.timezone)]_vars

\* the template of `code` for key and quantity q when the forms are tried in
\* the order <key>_<category>, <key>_plural, <key>
ThreeForms(st, code, key, q) ==
  IF getResource(st, code, key \o getSuffix(code, q)).found
  THEN getResource(st, code, key \o getSuffix(code, q))
  ELSE IF getResource(st, code, key \o "_plural").found
  THEN getResource(st, code, key \o "_plural")
  ELSE getResource(st, code, key)

\* the template of `code` for key and quantity q when the forms are tried in
\* the order <key><suffix>, <key>
TwoForms(st, code, key, q) ==
  IF getResource(st, code, key \o getSuffix(code, q)).found
  THEN getResource(st, code, key \o getSuffix(code, q))
  ELSE getResource(st, code, key)

\* C10 (as stated): for a node with a numeric quantity the template is the
\* first the locale holds of <key>_<category>, <key>_plural and <key>.
C10_ThreeFormOrder ==
  [][\A c \in Callers :
       Resolving(c) =>
         \A p \in NodePairs(call[c].object, call'[c].out) :
           /\ p # Lost
           /\ (/\ IsNum(Get(p.tr, "quantity"))
               /\ ~Has(p.tr, "fallback")
               /\ ThreeForms(store, call[c].locale, Key(p.tr),
                             Get(p.tr, "quantity").n).found) =>
                Interpolated(p.out,
                             ThreeForms(store, call[c].locale, Key(p.tr),
                                        Get(p.tr, "quantity").n).s,
                             p.tr, call[c].locale, config.timezone)]_vars

\* C10 (amended): for a node with a numeric quantity the template is the
\* first the locale holds of <key><suffix> and <key>, the suffix being the
\* plural suffix of (locale, quantity): none for quantity 1 and "_plural" for
\* any other quantity in "en", "_<index>" in "ar" ("_3" for quantity 3);
\* <key>_plural is not tried when the suffix is another one.
C10_TwoFormOrder ==
  [][/\ getSuffix("en", 1) = ""
     /\ \A q \in (0..MaxQuantity) \ {1} : getSuffix("en", q) = "_plural"
     /\ getSuffix("ar", 3) = "_3"
     /\ \A c \in Callers :
          Resolving(c) =>
            \A p \in NodePairs(call[c].object, call'[c].out) :
              /\ p # Lost
              /\ (/\ IsNum(Get(p.tr, "quantity"))
                  /\ ~Has(p.tr, "fallback")
                  /\ TwoForms(store, call[c].locale, Key(p.tr),
                              Get(p.tr, "quantity").n).found) =>
                   Interpolated(p.out,
                                TwoForms(store, call[c].locale, Key(p.tr),
                                         Get(p.tr, "quantity").n).s,
                                p.tr, call[c].locale, config.timezone)]_vars

\* a call in locale "ar" has returned "few dogs" (plural-dog_3) for
\* plural-dog with quantity 3
C10_Witness ==
  \E c \in Callers :
    /\ call[c].pc = "done"
    /\ call[c].before = Node("plural-dog", <<Quantity(3), Dog>>)
    /\ call[c].locale = "ar"
    /\ call[c].out = Str("few dogs")

\* C11: for a node with a numeric quantity and a fallback, a plural variant of
\* the key that the request locale holds is a hit and wins over the fallback,
\* also when the bare key is absent from the catalog.
C11_PluralWinsOverFallback ==
  [][\A c \in Callers :
       Resolving(c) =>
         \A p \in NodePairs(call[c].object, call'[c].out) :
           /\ p # Lost
           /\ (/\ IsNum(Get(p.tr, "quantity"))
               /\ IsStr(Get(p.tr, "fallback"))
               /\ TwoForms(store, call[c].locale, Key(p.tr),
                           Get(p.tr, "quantity").n).found) =>
                Interpolated(p.out,
                             TwoForms(store, call[c].locale, Key(p.tr),
                                      Get(p.tr, "quantity").n).s,
                             p.tr, call[c].locale, config.timezone)]_vars

\* the formatter raises while the node is interpolated
Raises(st, lng, engineTimezone, tr) == EngineT(st, lng, engineTimezone, tr).logged

\* C12: when a formatter raises while a node is interpolated, the output at
\* the node's position is a copy of the node: an object that still has its
\* "@translate" property and carries an `error` property holding the raised
\* error.
C12_ErrorMarkerKeepsNode ==
  [][\A c \in Callers :
       Resolving(c) =>
         \A p \in NodePairs(call[c].object, call'[c].out) :
           /\ p # Lost
           /\ Raises(store, call[c].locale, config.timezone, p.tr) =>
                /\ IsObj(p.out)
                /\ Has(p.out, TRANSLATE_SYMBOL)
                /\ Has(p.out, "error")
                /\ Get(p.out, "error").t = "error"]_vars

\* no generator function is left anywhere in the value
RECURSIVE NoPending(_)
NoPending(v) ==
  CASE v.t = "generator" -> FALSE
    [] v.t = "object" -> \A i \in 1..Len(v.kv) : NoPending(v.kv[i][2])
    [] v.t = "array" -> \A i \in 1..Len(v.xs) : NoPending(v.xs[i])
    [] OTHER -> TRUE

\* C13: a fault raised while resolving one node is local to that node: in a
\* tree holding several nodes of which one raises, translate still returns,
\* every other valid node is resolved to a string, and no pending resolution
\* is left anywhere in the output.
C13_FaultIsLocal ==
  [][\A c \in Callers :
       Resolving(c) =>
         LET pairs == NodePairs(call[c].object, call'[c].out)
         IN (\E q \in pairs :
               q # Lost /\ Raises(store, call[c].locale, config.timezone, q.tr)) =>
              /\ Lost \notin pairs
              /\ NoPending(call'[c].out)
              /\ \A p \in pairs :
                    ~Raises(store, call[c].locale, config.timezone, p.tr) =>
                      IsStr(p.out)]_vars

\* a call has returned, for {bad: <node whose formatter raises>, good:
\* <hello-john node>}, an error marker under `bad` and "Hello John" under
\* `good`
C13_Witness ==
  \E c \in Callers :
    /\ call[c].pc = "done"
    /\ IsObj(call[c].before)
    /\ Names(call[c].before) = {"bad", "good"}
    /\ Has(Get(call[c].out, "bad"), "error")
    /\ Get(call[c].out, "good") = Str("Hello John")

\* every position of the input that is not inside a valid node, with the
\* value the output holds there: {[in |-> value, out |-> value]}
RECURSIVE Positions(_, _)
Positions(in, out) ==
  {[in |-> in, out |-> out]}
  \cup (IF _validateNode(in) THEN {}
        ELSE IF IsObj(in) /\ IsObj(out) /\ Len(out.kv) = Len(in.kv)
        THEN UNION {Positions(in.kv[i][2], out.kv[i][2]) : i \in 1..Len(in.kv)}
        ELSE IF IsArr(in) /\ IsArr(out) /\ Len(out.xs) = Len(in.xs)
        THEN UNION {Positions(in.xs[i], out.xs[i]) : i \in 1..Len(in.xs)}
        ELSE IF in.t = "instance" THEN Positions(in.json, out)
        ELSE {})

\* C14: an object that has "@translate" and at least one other top-level key
\* is returned deep-equal to itself, whatever the values under the other keys.
C14_ExtraTopLevelKeysUnchanged ==
  [][\A c \in Callers :
       Resolving(c) =>
         \A p \in Positions(call[c].object, call'[c].out) :
           (IsObj(p.in) /\ Has(p.in, TRANSLATE_SYMBOL) /\ Len(p.in.kv) > 1) =>
             p.out = p.in]_vars

\* C15: an object whose "@translate" object carries a property other than
\* key, quantity, placeholders and fallback is not a translation node: it is
\* not translated and is returned unchanged at its position.
C15_ExtraInnerPropertyUnchanged ==
  [][\A c \in Callers :
       Resolving(c) =>
         \A p \in Positions(call[c].object, call'[c].out) :
           (/\ IsObj(p.in)
            /\ IsObj(Get(p.in, TRANSLATE_SYMBOL))
            /\ ~(Names(Get(p.in, TRANSLATE_SYMBOL))
                   \subseteq {"key", "quantity", "placeholders", "fallback"})) =>
             p.out = p.in]_vars

IsScalar(v) == v.t \in {"null", "undefined", "number", "boolean", "string"}

\* C16: for every scalar input s (null, undefined, number, boolean, string),
\* translate(s) returns s itself, raises nothing and issues no remote request.
C16_ScalarsKept ==
  \A c \in Callers :
    (call[c].pc \notin {"idle", "returned"} /\ IsScalar(call[c].before)) =>
      /\ call[c].pc # "remote"
      /\ call[c].requested = <<>>
      /\ call[c].pc = "done" => call[c].out = call[c].before

\* a call has returned 123 for 123 while the loader has a reachable remote
C16_Witness ==
  \E c \in Callers :
    /\ call[c].pc = "done"
    /\ call[c].before = Num(123)
    /\ call[c].out = Num(123)
    /\ redis = "up"

\* C17: translate is idempotent on its own output: with the catalog
\* unchanged, translating the output again (same locale and timezone) gives
\* a value deep-equal to that output, outputs holding error markers and
\* JSON forms of toJSON objects included.
C17_Idempotent ==
  [][\A c \in Callers :
       Resolving(c) =>
         YieldRes(_walk(call'[c].out).res, store, call[c].locale, config.timezone)
           = call'[c].out]_vars

-----------------------------------------------------------------------------
(* Properties of Loader.load within translate *)

\* the step in which the load of caller c returns without a remote call
LoadsFromCache(c) == call[c].pc = "init" /\ call'[c].pc = "resolve"

\* the step in which the load of caller c returns after the remote replied
LoadsFromRemote(c) ==
  call[c].pc = "remote" /\ call'[c].pc = "resolve" /\ ~call'[c].warned

InCache(key, locale) == key \in DOMAIN cache /\ locale \in DOMAIN cache[key]

InRemote(key, locale) == key \in DOMAIN Remote /\ locale \in DOMAIN Remote[key]

\* the mapping holds a template under (locale, key)
Under(translations, locale, key) ==
  locale \in DOMAIN translations /\ key \in DOMAIN translations[locale]

\* C18: with a reachable remote, load returns a mapping that holds a template
\* under (locale, key) for every requested key and consulted locale for which
\* the cache or the remote holds one, and nothing else, and the templates are
\* added to the catalog; in particular two requested keys served from the
\* cache for the same locale both appear.
C18_LoadReturnsAllHeld ==
  [][\A c \in Callers :
       ((LoadsFromCache(c) \/ LoadsFromRemote(c)) /\ redis = "up") =>
         LET locales == getLocales(call[c].locale)
             keys == call'[c].keys
             translations == call'[c].translations
         IN /\ \A i \in 1..Len(keys) : \A j \in 1..Len(locales) :
                 (InCache(keys[i], locales[j]) \/ InRemote(keys[i], locales[j])) =>
                   /\ Under(translations, locales[j], keys[i])
                   /\ Under(store', locales[j], keys[i])
            /\ \A l \in DOMAIN translations : \A k \in DOMAIN translations[l] :
                 /\ \E i \in 1..Len(keys) : keys[i] = k
                 /\ \E j \in 1..Len(locales) : locales[j] = l]_vars

\* C19: when the loader has no remote (never configured with a url, or
\* disconnected), load returns the cache-derived result: every template the
\* cache holds for a requested key and a consulted locale is in the returned
\* mapping.
C19_NoRemoteReturnsCache ==
  [][\A c \in Callers :
       (LoadsFromCache(c) /\ redis = "none") =>
         LET locales == getLocales(call[c].locale)
             keys == call'[c].keys
         IN \A i \in 1..Len(keys) : \A j \in 1..Len(locales) :
              InCache(keys[i], locales[j]) =>
                /\ Under(call'[c].translations, locales[j], keys[i])
                /\ call'[c].translations[locales[j]][keys[i]]
                     = cache[keys[i]][locales[j]]]_vars

\* C20: a load in which every requested key has a cache entry for at least
\* one consulted locale issues no remote request; so a second translate of
\* the same keys in the same locale, after a first one that loaded them, makes
\* no remote call while the entries live.
C20_CacheHitsAvoidRemote ==
  [][\A c \in Callers :
       (/\ call[c].pc = "init"
        /\ call'[c].pc # "init"
        /\ \A i \in 1..Len(call'[c].keys) :
             \E j \in 1..Len(getLocales(call[c].locale)) :
               InCache(call'[c].keys[i], getLocales(call[c].locale)[j])) =>
         /\ call'[c].pc = "resolve"
         /\ call'[c].requested = <<>>]_vars

\* with a client connected, a load of key howdy has been served from the
\* cache and has returned without a remote request
C20_Witness ==
  \E c \in Callers :
    /\ call[c].pc = "resolve"
    /\ call[c].keys = <<"howdy">>
    /\ call[c].requested = <<>>
    /\ Under(call[c].translations, "en", "howdy")
    /\ redis = "up"

\* C21: a failing remote never surfaces to the caller: when the batched
\* remote call fails, load raises nothing, logs a warning, and returns what
\* was assembled from the cache (the empty mapping when the cache held none
\* of the keys); the enclosing translate goes on to resolve its nodes and
\* returns its value.
C21_RemoteFailureContained ==
  [][\A c \in Callers :
       /\ (call[c].pc = "remote" /\ redis = "down" /\ call'[c] # call[c]) =>
            /\ call'[c].pc = "resolve"
            /\ call'[c].warned
            /\ call'[c].translations = call[c].translations
            /\ call[c].requested = call[c].keys => call'[c].translations = EmptyMap
       /\ (Resolving(c) /\ call[c].warned) =>
            /\ NoPending(call'[c].out)
            /\ Lost \notin NodePairs(call[c].object, call'[c].out)]_vars

\* a call whose remote call failed has completed, its load having returned
\* the template the cache held for howdy
C21_Witness ==
  \E c \in Callers :
    /\ call[c].pc = "done"
    /\ call[c].warned
    /\ call[c].keys = <<"howdy", "hello-john">>
    /\ Under(call[c].translations, "fr", "howdy")
    /\ IsArr(call[c].out)

\* C22: write-through: after a load whose remote call succeeds, every
\* non-empty template the remote returned for an unknown key and a consulted
\* locale has been announced by an 'add' event and is in the cache under that
\* key and locale; and every event announces such a template.
C22_WriteThrough ==
  [][\A c \in Callers :
       LoadsFromRemote(c) =>
         LET locales == getLocales(call[c].locale)
             unknown == call[c].requested
             added == call'[c].added
         IN /\ \A i \in 1..Len(unknown) : \A j \in 1..Len(locales) :
                 InRemote(unknown[i], locales[j]) =>
                   /\ \E n \in 1..Len(added) :
                        added[n] = <<unknown[i], locales[j],
                                     Remote[unknown[i]][locales[j]]>>
                   /\ unknown[i] \in DOMAIN cache'
                   /\ locales[j] \in DOMAIN cache'[unknown[i]]
                   /\ cache'[unknown[i]][locales[j]] = Remote[unknown[i]][locales[j]]
            /\ \A n \in 1..Len(added) :
                 IsRemote(added[n][1], added[n][2], added[n][3])]_vars

\* C24: within one translate no node is resolved before the loader has
\* finished: the walk only records pending resolutions, the load (cache read,
\* remote call, catalog add) then completes, and only afterwards are the
\* nodes resolved, so every node sees all the templates the load added.
C24_ResolveAfterLoad ==
  [][\A c \in Callers :
       /\ call'[c].pc \in {"init", "remote", "resolve"} =>
            /\ call'[c].out = Undefined
            /\ call'[c].object = call'[c].before
       /\ Resolving(c) =>
            /\ call'[c].out = YieldRes(call[c].res, store, call[c].locale,
                                       config.timezone)
            /\ ~call[c].warned =>
                 \A l \in DOMAIN call[c].translations :
                   \A k \in DOMAIN call[c].translations[l] : Under(store, l, k)]_vars

\* a call in locale "fr" has asked the remote for howdy and has returned
\* "Hey", the template its load added to the catalog
C24_Witness ==
  \E c \in Callers :
    /\ call[c].pc = "done"
    /\ call[c].locale = "fr"
    /\ call[c].requested = <<"howdy">>
    /\ call[c].out = Str("Hey")

\* the keys of the valid nodes of a value, depth first
RECURSIVE NodeKeys(_)
NodeKeys(v) ==
  IF _validateNode(v) THEN <<Key(Get(v, TRANSLATE_SYMBOL))>>
  ELSE IF IsObj(v) THEN Flatten([i \in 1..Len(v.kv) |-> NodeKeys(v.kv[i][2])])
  ELSE IF IsArr(v) THEN Flatten([i \in 1..Len(v.xs) |-> NodeKeys(v.xs[i])])
  ELSE IF v.t = "instance" THEN NodeKeys(v.json)
  ELSE <<>>

\* C25: each translate call issues at most one batched remote request, which
\* holds one fetch per key of the walk's key list that the cache does not
\* know (the list has one key per valid node, depth first); a value without
\* any node issues none.
C25_OneBatchedRequest ==
  [][\A c \in Callers :
       /\ (call[c].pc = "init" /\ call'[c].pc # "init") =>
            /\ call'[c].keys = NodeKeys(call[c].object)
            /\ call'[c].pc = "remote" =>
                 /\ call'[c].requested # <<>>
                 /\ call'[c].requested =
                      SelectSeq(call'[c].keys,
                                LAMBDA k :
                                  \A j \in 1..Len(getLocales(call[c].locale)) :
                                    ~InCache(k, getLocales(call[c].locale)[j]))
            /\ call'[c].keys = <<>> => call'[c].pc = "resolve"
       /\ call'[c].pc = "remote" => call[c].pc \in {"init", "remote"}
       /\ call[c].pc = "remote" => call'[c].requested = call[c].requested]_vars

\* a call on [howdy node, hello-john node] has a request in flight for
\* hello-john only, howdy being cached
C25_Witness ==
  \E c \in Callers :
    /\ call[c].pc = "remote"
    /\ call[c].keys = <<"howdy", "hello-john">>
    /\ call[c].requested = <<"hello-john">>

-----------------------------------------------------------------------------
(* The Loader's cache, called directly *)

CacheKeys == {"howdy", "lru"}

CacheLocales == {"en", "fr"}

Templates == {"Howdy", "Hey"}

\* the mappings locale -> template handed to setItemToCache
Partials ==
  UNION {[ls -> Templates] : ls \in SUBSET CacheLocales}

\* the locale lists handed to getItemFromCache
LocaleLists == {<<>>, <<"en">>, <<"fr">>, <<"fr", "en">>, <<"de">>, <<"de", "en">>}

\* loader.setItemToCache(key, translations)
SetItemToCache(key, translations) ==
  /\ cache' = setItemToCache(cache, key, translations)
  /\ api' = [op |-> "setItemToCache", key |-> key, translations |-> translations]
  /\ UNCHANGED <<config, language, logger, remote, store, redis, loader, call, mongo>>

\* loader.getItemFromCache(key, ...locales)
GetItemFromCache(key, locales) ==
  /\ api' = [op |-> "getItemFromCache", key |-> key, locales |-> locales,
             returned |-> getItemFromCache(cache, key, locales)]
  /\ UNCHANGED <<config, language, logger, remote, store, cache, redis, loader, call, mongo>>

NextCache ==
  \/ \E key \in CacheKeys, translations \in Partials :
       SetItemToCache(key, translations)
  \/ \E key \in CacheKeys, locales \in LocaleLists :
       GetItemFromCache(key, locales)

SpecCache == Init /\ [][NextCache]_vars

\* what the cache holds for a key: a mapping locale -> template, empty when
\* the key is not cached
Held(ch, key) == IF key \in DOMAIN ch THEN ch[key] ELSE EmptyMap

\* C23: the cache's Set is merge-semantic per key: Set(key, partialMap) adds
\* or overwrites exactly the locales of partialMap and leaves the key's other
\* cached locales, and every other key, untouched; Get(key, locales...)
\* returns the key's mapping restricted to the listed locales.
C23_SetMergesGetRestricts ==
  [][/\ (api'.op = "setItemToCache" /\ <<api, cache>>' # <<api, cache>>) =>
          LET key == api'.key
              partialMap == api'.translations
          IN /\ DOMAIN Held(cache', key) =
                  DOMAIN Held(cache, key) \cup DOMAIN partialMap
             /\ \A l \in DOMAIN partialMap : cache'[key][l] = partialMap[l]
             /\ \A l \in DOMAIN Held(cache, key) \ DOMAIN partialMap :
                  cache'[key][l] = cache[key][l]
             /\ \A k \in CacheKeys \ {key} : Held(cache', k) = Held(cache, k)
     /\ (api'.op = "getItemFromCache" /\ api' # api /\ api'.locales # <<>>) =>
          LET listed == {api'.locales[j] : j \in 1..Len(api'.locales)}
          IN /\ cache' = cache
             /\ DOMAIN api'.returned = DOMAIN Held(cache, api'.key) \cap listed
             /\ \A l \in DOMAIN api'.returned :
                  api'.returned[l] = cache[api'.key][l]]_vars

\* howdy is cached as {en: "Howdy", fr: "Hey"}, a Set of {fr: "Howdy"} has
\* left en alone, and a Get for fr then returned {fr: "Howdy"} only
C23_Witness ==
  /\ api.op = "getItemFromCache"
  /\ api.key = "howdy"
  /\ api.locales = <<"fr">>
  /\ api.returned = ("fr" :> "Howdy")
  /\ Held(cache, "howdy") = ("en" :> "Howdy" @@ "fr" :> "Howdy")
  /\ Held(cache, "lru") = ("en" :> "Hey")

-----------------------------------------------------------------------------
(* buildTranslationObject, alias helper and _ *)

\* _.isEmpty(v): no own enumerable property, no element, no character
IsEmpty(v) ==
  CASE IsObj(v) -> v.kv = <<>>
    [] IsArr(v) -> v.xs = <<>>
    [] IsStr(v) -> v.s = ""
    [] OTHER -> TRUE

\* _.isPlainObject(v)
IsPlainObject(v) == IsObj(v)

\* buildTranslationObject setting `placeholders` whenever it is not undefined
buildTranslationObjectAnyPlaceholders(key, placeholders, fallback, quantity) ==
  Node(key,
       (IF placeholders # Undefined
        THEN << <<"placeholders", placeholders>> >> ELSE <<>>)
       \o (IF fallback # Undefined THEN << <<"fallback", fallback>> >> ELSE <<>>)
       \o (IF quantity # Undefined THEN << <<"quantity", quantity>> >> ELSE <<>>))

\* buildTranslationObject(key, placeholders, { fallback, quantity } = {})
buildTranslationObject(key, placeholders, fallback, quantity) ==
  Node(key,
       (IF ~IsEmpty(placeholders) /\ IsPlainObject(placeholders)
        THEN << <<"placeholders", placeholders>> >> ELSE <<>>)
       \o (IF fallback # Undefined THEN << <<"fallback", fallback>> >> ELSE <<>>)
       \o (IF quantity # Undefined THEN << <<"quantity", quantity>> >> ELSE <<>>))

BuildKeys == {"howdy", "hello-john", "dogs"}

\* the second argument: nothing, null, an empty and two non-empty plain
\* mappings, an array, a string, an instance of a class
BuildPlaceholders ==
  {Undefined, Null, Obj(<<>>), John[2], Dog[2], Arr(<<Str("John")>>),
   Str("John"), Inst(John[2])}

BuildFallbacks == {Undefined, Str(""), Str("Hello France")}

BuildQuantities == {Undefined} \cup {Num(q) : q \in 0..MaxQuantity}

\* i18n.buildTranslationObject(key, placeholders, { fallback, quantity })
Build(key, placeholders, fallback, quantity) ==
  /\ api' = [op |-> "buildTranslationObject", key |-> key,
             placeholders |-> placeholders, fallback |-> fallback,
             quantity |-> quantity,
             returned |-> buildTranslationObject(key, placeholders, fallback,
                                                 quantity)]
  /\ UNCHANGED <<config, language, logger, remote, store, cache, redis, loader, call, mongo>>

NextBuild ==
  \E key \in BuildKeys, placeholders \in BuildPlaceholders,
     fallback \in BuildFallbacks, quantity \in BuildQuantities :
    Build(key, placeholders, fallback, quantity)

SpecBuild == Init /\ [][NextBuild]_vars

-----------------------------------------------------------------------------
(* The mongo helper: connect, connectAll, disconnect, disconnectAll *)

\* exploration bounds: the MongoClient.connect promises, and the promises
\* returned by disconnect() and disconnectAll()
MaxAttempts == 2

MaxDisconnects == 3

ConnectionNames == {"main", "logs"}

Uri == "mongodb://localhost/test"

\* a config object; "" stands for a missing (falsy) name or uri
Config(name, uri) == [name |-> name, uri |-> uri]

Configs ==
  {Config("main", Uri), Config("logs", Uri), Config("", Uri), Config("main", "")}

\* the arrays handed to connectAll
ConfigLists ==
  {<<>>,
   <<Config("main", Uri), Config("logs", Uri)>>,
   <<Config("main", Uri), Config("main", Uri)>>,
   <<Config("main", Uri), Config("", Uri)>>,
   <<Config("logs", Uri), Config("main", "")>>}

MissingName == "Missing parameter \"name\" in config"

MissingUri == "Missing parameter \"uri\" in config"

MissingConfigs == "Missing parameter \"configs\""

MissingDisconnectName == "Missing parameter \"name\""

InvalidName(name) == "Invalid connection name: " \o name

\* a Map without one key
Without(map, name) == [k \in DOMAIN map \ {name} |-> map[k]]

\* the helper's state as the exported functions see it, with the outcome of
\* the call under way: the message of the error thrown ("" for none) and the
\* value returned (promises are named by their position in `attempts` or
\* `disconnects`)
Helper ==
  [connections |-> _connections, attempts |-> attempts,
   disconnects |-> disconnects, threw |-> "", returned |-> 0]

Throw(h, message) == [h EXCEPT !.threw = message]

\* connect() starting a connection attempt whether or not the name is registered
connectAlways(h, cfg) ==
  IF cfg.name = "" THEN Throw(h, MissingName)
  ELSE IF cfg.uri = "" THEN Throw(h, MissingUri)
  ELSE LET id == Len(h.attempts) + 1
       IN [h EXCEPT !.connections = (cfg.name :> id) @@ h.connections,
                    !.attempts = Append(h.attempts,
                                        [name |-> cfg.name,
                                         state |-> "pending", closes |-> 0]),
                    !.returned = id]

\* connect(config)
connect(h, cfg) ==
  IF cfg.name = "" THEN Throw(h, MissingName)
  ELSE IF cfg.uri = "" THEN Throw(h, MissingUri)
  ELSE IF cfg.name \in DOMAIN h.connections
  THEN [h EXCEPT !.returned = h.connections[cfg.name]]
  ELSE LET id == Len(h.attempts) + 1
       IN [h EXCEPT !.connections = (cfg.name :> id) @@ h.connections,
                    !.attempts = Append(h.attempts,
                                        [name |-> cfg.name,
                                         state |-> "pending", closes |-> 0]),
                    !.returned = id]

\* [...configs.values()].map(connect): stops at the first call that throws
RECURSIVE connectEach(_, _)
connectEach(h, configs) ==
  IF configs = <<>> THEN [h EXCEPT !.returned = <<>>]
  ELSE LET front == connectEach(h, SubSeq(configs, 1, Len(configs) - 1))
       IN IF front.threw # "" THEN front
          ELSE LET last == connect(front, configs[Len(configs)])
               IN IF last.threw # "" THEN last
                  ELSE [last EXCEPT !.returned =
                                      Append(front.returned, last.returned)]

\* connectAll() without its forEach of assertions
connectAllUnchecked(h, configs) ==
  IF configs = <<>> THEN Throw(h, MissingConfigs)
  ELSE connectEach(h, configs)

\* connectAll(configs).  The configs are distinct objects, so `new Set` keeps
\* them all.
connectAll(h, configs) ==
  IF configs = <<>> THEN Throw(h, MissingConfigs)
  ELSE IF \E i \in 1..Len(configs) : configs[i].name = "" \/ configs[i].uri = ""
  THEN LET i == CHOOSE i \in 1..Len(configs) :
                  /\ configs[i].name = "" \/ configs[i].uri = ""
                  /\ \A j \in 1..(i - 1) :
                       configs[j].name # "" /\ configs[j].uri # ""
       IN Throw(h, IF configs[i].name = "" THEN MissingName ELSE MissingUri)
  ELSE connectEach(h, configs)

\* disconnect(name), up to the promise it returns; `started` is the number
\* of connection attempts made before the call
disconnect(h, name) ==
  IF name = "" THEN Throw(h, MissingDisconnectName)
  ELSE IF name \notin DOMAIN h.connections THEN Throw(h, InvalidName(name))
  ELSE [h EXCEPT !.disconnects =
                   Append(h.disconnects,
                          [kind |-> "one", name |-> name,
                           attempt |-> h.connections[name], pc |-> "waiting",
                           members |-> {}, started |-> Len(h.attempts)]),
                 !.returned = Len(h.disconnects) + 1]

\* [..._connections.keys()].map(disconnect)
RECURSIVE disconnectEach(_, _)
disconnectEach(h, names) ==
  IF names = {} THEN h
  ELSE LET name == CHOOSE n \in names : TRUE
       IN disconnectEach(disconnect(h, name), names \ {name})

\* disconnectAll(): Promise.all over the promises of the disconnects, which
\* is resolved from the start when there are none
disconnectAll(h) ==
  LET each == disconnectEach(h, DOMAIN h.connections)
      members == (Len(h.disconnects) + 1)..Len(each.disconnects)
  IN [each EXCEPT !.disconnects =
                    Append(each.disconnects,
                           [kind |-> "all", name |-> "", attempt |-> 0,
                            pc |-> IF members = {} THEN "resolved"
                                   ELSE "waiting",
                            members |-> members, started |-> Len(h.attempts)]),
                  !.returned = Len(each.disconnects) + 1]

\* a call of an exported function leaves the helper in state h
Leaves(h) ==
  /\ Len(h.attempts) <= MaxAttempts
  /\ Len(h.disconnects) <= MaxDisconnects
  /\ _connections' = h.connections
  /\ attempts' = h.attempts
  /\ disconnects' = h.disconnects
  /\ UNCHANGED <<_databases, config, language, logger, remote, store, cache, redis, loader, call>>

MongoConnect(cfg) ==
  LET h == connect(Helper, cfg)
  IN /\ Leaves(h)
     /\ api' = [op |-> "connect", config |-> cfg, threw |-> h.threw,
                returned |-> h.returned]

MongoConnectAll(configs) ==
  LET h == connectAll(Helper, configs)
  IN /\ Leaves(h)
     /\ api' = [op |-> "connectAll", configs |-> configs, threw |-> h.threw,
                returned |-> h.returned]

MongoDisconnect(name) ==
  LET h == disconnect(Helper, name)
  IN /\ Leaves(h)
     /\ api' = [op |-> "disconnect", name |-> name, threw |-> h.threw,
                returned |-> h.returned]

MongoDisconnectAll ==
  LET h == disconnectAll(Helper)
  IN /\ Leaves(h)
     /\ api' = [op |-> "disconnectAll", threw |-> h.threw,
                returned |-> h.returned]

\* MongoClient.connect resolves: connect's `then` stores the database pointer
ConnectionEstablished(id) ==
  /\ attempts[id].state = "pending"
  /\ attempts' = [attempts EXCEPT ![id].state = "resolved"]
  /\ _databases' = (attempts[id].name :> id) @@ _databases
  /\ api' = NoCall
  /\ UNCHANGED <<_connections, disconnects, config, language, logger, remote, store,
                 cache, redis, loader, call>>

\* MongoClient.connect rejects
ConnectionFailed(id) ==
  /\ attempts[id].state = "pending"
  /\ attempts' = [attempts EXCEPT ![id].state = "rejected"]
  /\ api' = NoCall
  /\ UNCHANGED <<_connections, _databases, disconnects, config, language,
                 logger, remote, store, cache, redis, loader, call>>

\* disconnect's callback on a promise without `.catch(() => null)`: a failed
\* connection rejects the disconnect
ConnectionSettledUncaught(d) ==
  LET id == disconnects[d].attempt
  IN /\ disconnects[d].kind = "one"
     /\ disconnects[d].pc = "waiting"
     /\ attempts[id].state # "pending"
     /\ IF attempts[id].state = "resolved"
        THEN /\ _connections' = Without(_connections, disconnects[d].name)
             /\ _databases' = Without(_databases, disconnects[d].name)
             /\ attempts' = [attempts EXCEPT ![id].closes = @ + 1]
             /\ disconnects' = [disconnects EXCEPT ![d].pc = "closing"]
        ELSE /\ disconnects' = [disconnects EXCEPT ![d].pc = "rejected"]
             /\ UNCHANGED <<_connections, _databases, attempts>>
     /\ api' = NoCall
     /\ UNCHANGED <<config, language, logger, remote, store, cache, redis, loader, call>>

\* the connection a disconnect waits for has settled: its callback deletes the
\* name from both Maps, then closes the database, or resolves at once when
\* the connection had failed (db is null)
ConnectionSettled(d) ==
  LET id == disconnects[d].attempt
  IN /\ disconnects[d].kind = "one"
     /\ disconnects[d].pc = "waiting"
     /\ attempts[id].state # "pending"
     /\ _connections' = Without(_connections, disconnects[d].name)
     /\ _databases' = Without(_databases, disconnects[d].name)
     /\ IF attempts[id].state = "resolved"
        THEN /\ attempts' = [attempts EXCEPT ![id].closes = @ + 1]
             /\ disconnects' = [disconnects EXCEPT ![d].pc = "closing"]
        ELSE /\ disconnects' = [disconnects EXCEPT ![d].pc = "resolved"]
             /\ UNCHANGED attempts
     /\ api' = NoCall
     /\ UNCHANGED <<config, language, logger, remote, store, cache, redis, loader, call>>

\* db.close() resolves, and with it the disconnect
DatabaseClosed(d) ==
  /\ disconnects[d].pc = "closing"
  /\ disconnects' = [disconnects EXCEPT ![d].pc = "resolved"]
  /\ api' = NoCall
  /\ UNCHANGED <<_connections, _databases, attempts, config, language, logger, remote,
                 store, cache, redis, loader, call>>

\* every disconnect of a disconnectAll has resolved, and with them the
\* Promise.all
AllResolved(d) ==
  /\ disconnects[d].kind = "all"
  /\ disconnects[d].pc = "waiting"
  /\ \A m \in disconnects[d].members : disconnects[m].pc = "resolved"
  /\ disconnects' = [disconnects EXCEPT ![d].pc = "resolved"]
  /\ api' = NoCall
  /\ UNCHANGED <<_connections, _databases, attempts, config, language, logger, remote,
                 store, cache, redis, loader, call>>

NextMongo ==
  \/ \E cfg \in Configs : MongoConnect(cfg)
  \/ \E configs \in ConfigLists : MongoConnectAll(configs)
  \/ \E name \in ConnectionNames \cup {""} : MongoDisconnect(name)
  \/ MongoDisconnectAll
  \/ \E id \in 1..Len(attempts) : ConnectionEstablished(id)
  \/ \E id \in 1..Len(attempts) : ConnectionFailed(id)
  \/ \E d \in 1..Len(disconnects) : ConnectionSettled(d)
  \/ \E d \in 1..Len(disconnects) : DatabaseClosed(d)
  \/ \E d \in 1..Len(disconnects) : AllResolved(d)

SpecMongo == Init /\ [][NextMongo]_vars

InvalidConfig(cfg) == cfg.name = "" \/ cfg.uri = ""

ConfigMessage(cfg) == IF cfg.name = "" THEN MissingName ELSE MissingUri

\* C27: a validation failure raises synchronously, with a message naming
\* what is wrong, before any state changes: connect without a name or a uri,
\* connectAll with no config or with a config lacking a name or a uri (in
\* which case no connection at all is started), disconnect without a name or
\* with a name that is not registered.  Both registries, the connections
\* started and the disconnects under way are as they were.
C27_ValidationRaisesFirst ==
  [][/\ (api'.op = "connect" /\ InvalidConfig(api'.config)) =>
          /\ api'.threw = ConfigMessage(api'.config)
          /\ mongo' = mongo
     /\ (api'.op = "connectAll" /\ api'.configs = <<>>) =>
          /\ api'.threw = MissingConfigs
          /\ mongo' = mongo
     /\ (api'.op = "connectAll"
           /\ \E i \in 1..Len(api'.configs) : InvalidConfig(api'.configs[i])) =>
          /\ \E i \in 1..Len(api'.configs) :
               /\ InvalidConfig(api'.configs[i])
               /\ api'.threw = ConfigMessage(api'.configs[i])
          /\ mongo' = mongo
     /\ (api'.op = "disconnect" /\ api'.name = "") =>
          /\ api'.threw = MissingDisconnectName
          /\ mongo' = mongo
     /\ (api'.op = "disconnect" /\ api'.name # ""
           /\ api'.name \notin DOMAIN _connections) =>
          /\ api'.threw = InvalidName(api'.name)
          /\ mongo' = mongo]_vars

\* connectAll([{name: "logs", uri}, {name: "main"}]) has thrown for the
\* missing uri while main was registered and logs was not: logs is still not
\* registered
C27_Witness ==
  /\ api.op = "connectAll"
  /\ api.configs = <<Config("logs", Uri), Config("main", "")>>
  /\ api.threw = MissingUri
  /\ "main" \in DOMAIN _connections
  /\ "logs" \notin DOMAIN _connections

\* C28: connect with a name that is already registered returns the connection
\* registered under it and starts no connection attempt; an attempt is
\* started only for a name that is not registered, and registers it, and a
\* registration ends only when a disconnect of the name runs: between two
\* disconnects of a name at most one attempt is started for it.
C28_RegisteredNameReused ==
  [][/\ (api'.op = "connect" /\ ~InvalidConfig(api'.config)
           /\ api'.config.name \in DOMAIN _connections) =>
          /\ api'.threw = ""
          /\ api'.returned = _connections[api'.config.name]
          /\ mongo' = mongo
     /\ Len(attempts') >= Len(attempts)
     /\ \A id \in (Len(attempts) + 1)..Len(attempts') :
          /\ attempts'[id].name \notin DOMAIN _connections
          /\ _connections'[attempts'[id].name] = id
     /\ \A name \in DOMAIN _connections :
          \/ /\ name \in DOMAIN _connections'
             /\ _connections'[name] = _connections[name]
          \/ \E d \in 1..Len(disconnects) :
               /\ disconnects[d].name = name
               /\ disconnects[d].pc = "waiting"
               /\ disconnects'[d].pc # "waiting"]_vars

\* connect for main has returned the one connection ever started, which was
\* established before the call
C28_Witness ==
  /\ api.op = "connect"
  /\ api.config = Config("main", Uri)
  /\ api.returned = 1
  /\ Len(attempts) = 1
  /\ attempts[1].state = "resolved"

\* C29: after disconnect(name) has resolved, with no connection attempt
\* started since it was called, neither registry holds name and the database
\* of the connection, if it was established, has been closed; after
\* disconnectAll() has resolved, with no connection attempt started since it
\* was called, both registries are empty.
C29_DisconnectedMeansGone ==
  \A d \in 1..Len(disconnects) :
    (disconnects[d].pc = "resolved" /\ Len(attempts) = disconnects[d].started) =>
      IF disconnects[d].kind = "one"
      THEN /\ disconnects[d].name \notin DOMAIN _connections
           /\ disconnects[d].name \notin DOMAIN _databases
           /\ attempts[disconnects[d].attempt].state = "resolved" =>
                attempts[disconnects[d].attempt].closes >= 1
      ELSE /\ _connections = EmptyMap
           /\ _databases = EmptyMap

\* C30: a disconnect of a connection that failed to establish resolves, never
\* rejects, and removes the name from both registries.
C30_FailedConnectionDisconnects ==
  [][\A d \in 1..Len(disconnects) :
       /\ disconnects'[d].pc # "rejected"
       /\ (disconnects[d].kind = "one"
             /\ attempts[disconnects[d].attempt].state = "rejected"
             /\ disconnects[d].pc = "waiting"
             /\ disconnects'[d].pc # "waiting") =>
            /\ disconnects'[d].pc = "resolved"
            /\ disconnects[d].name \notin DOMAIN _connections'
            /\ disconnects[d].name \notin DOMAIN _databases'
            /\ attempts' = attempts]_vars

\* a disconnect of main has resolved on a connection that had failed, and
\* main is not registered
C30_Witness ==
  \E d \in 1..Len(disconnects) :
    /\ disconnects[d].kind = "one"
    /\ disconnects[d].name = "main"
    /\ disconnects[d].pc = "resolved"
    /\ attempts[disconnects[d].attempt].state = "rejected"
    /\ "main" \notin DOMAIN _connections

\* C31: in every reachable state, under any interleaving of connect,
\* connectAll, disconnect and disconnectAll, every name that has a database
\* pointer also has a registered connection.
C31_PointerImpliesConnection ==
  DOMAIN _databases \subseteq DOMAIN _connections

\* C38: a failed connection attempt does not stay registered: a connect for
\* a name whose registered connection has been rejected starts a new
\* connection attempt and returns it, without a disconnect in between.
C38_FailedAttemptNotReused ==
  [][(api'.op = "connect" /\ ~InvalidConfig(api'.config)
        /\ api'.config.name \in DOMAIN _connections
        /\ attempts[_connections[api'.config.name]].state = "rejected") =>
       /\ Len(attempts') = Len(attempts) + 1
       /\ api'.returned = Len(attempts')
       /\ attempts'[api'.returned].name = api'.config.name]_vars

\* C39 (first half): under any interleaving of connect, disconnect and
\* disconnectAll calls, db.close() is called at most once on each established
\* database.
C39_ClosedAtMostOnce ==
  \A id \in 1..Len(attempts) : attempts[id].closes <= 1

\* C32: with a remote client, load asks the remote for exactly the requested
\* keys that have no cache entry in any consulted locale, in the order of the
\* key list: a key whose cache entry holds a template for at least one
\* consulted locale (for instance only for the default locale) is not
\* requested, and a key with no such entry is requested with all consulted
\* locales as fields.
C32_AsksExactlyUncachedKeys ==
  [][\A c \in Callers :
       (call[c].pc = "init" /\ call'[c].pc # "init" /\ redis # "none") =>
         LET locales == getLocales(call[c].locale)
             keys == call'[c].keys
             cached(k) == \E j \in 1..Len(locales) : InCache(k, locales[j])
         IN /\ call'[c].requested = SelectSeq(keys, LAMBDA k : ~cached(k))
            /\ call'[c].pc = "remote" <=> \E i \in 1..Len(keys) : ~cached(keys[i])
            /\ call'[c].pc = "remote" => call'[c].fields = locales]_vars

\* a call in locale "fr" whose keys include hello-john, cached for "en" only,
\* has a request in flight that leaves hello-john out and names the fields fr
\* and en
C32_Witness ==
  \E c \in Callers :
    /\ call[c].pc = "remote"
    /\ call[c].locale = "fr"
    /\ "hello-john" \in DOMAIN cache
    /\ DOMAIN cache["hello-john"] = {"en"}
    /\ \E i \in 1..Len(call[c].keys) : call[c].keys[i] = "hello-john"
    /\ \A i \in 1..Len(call[c].requested) : call[c].requested[i] # "hello-john"
    /\ call[c].fields = <<"fr", "en">>

-----------------------------------------------------------------------------
(* The formatter, called as i18next's interpolation.format calls it *)

DateFormats == {"date", "time", "datetime"}

\* the pattern each date formatter hands to moment's format()
Pattern(format) ==
  CASE format = "date" -> "LL"
    [] format = "time" -> "LT"
    [] OTHER -> "LLLL"

Instants == {Str("T0"), Str("T1")}

\* a date placeholder: {value} or {value, timezone}
DateValues ==
  {Obj(<< <<"value", v>> >>) : v \in Instants}
  \cup {Obj(<< <<"value", v>>, <<"timezone", z>> >>) :
          v \in Instants,
          z \in {Str("Asia/Tokyo"), Str("Europe/Paris"), Str(""), Null}}

\* engine.timezone: never set, null (translate's default) or a zone
EngineZones == {Undefined, Null} \cup Zones

\* formatter(value, format, locale, engine)
Format(value, format, locale, engineTimezone) ==
  /\ api' = [op |-> "formatter", value |-> value, format |-> format,
             locale |-> locale, engineTimezone |-> engineTimezone,
             result |-> formatter(value, format, locale, engineTimezone)]
  /\ UNCHANGED <<config, language, logger, remote, store, cache, redis, loader, call, mongo>>

NextFormat ==
  \E value \in DateValues, format \in DateFormats, locale \in {"en", "fr"},
     engineTimezone \in EngineZones :
    Format(value, format, locale, engineTimezone)

SpecFormat == Init /\ [][NextFormat]_vars

\* a zone is named: a non-empty string
NamesZone(v) == v.t = "string" /\ v.s # ""

\* C34: the zone used by the date, time and datetime formatters is the
\* placeholder's own timezone when it names one, otherwise engine.timezone
\* when it names one, otherwise the zone of the date value itself; a
\* placeholder timezone always overrides the engine timezone.
C34_TimezonePrecedence ==
  api.op = "formatter" =>
    LET own == Get(api.value, "timezone")
        zone == IF NamesZone(own) THEN own.s
                ELSE IF NamesZone(api.engineTimezone) THEN api.engineTimezone.s
                ELSE ""
    IN /\ ~api.result.threw
       /\ api.result.v =
            Str(Pattern(api.format) \o "(" \o Get(api.value, "value").s \o ")@"
                \o zone \o "/" \o api.locale)

\* a time placeholder with timezone Asia/Tokyo, formatted by an engine whose
\* timezone is Europe/Paris, is shown in Asia/Tokyo
C34_Witness ==
  /\ api.op = "formatter"
  /\ api.format = "time"
  /\ api.engineTimezone = Str("Europe/Paris")
  /\ Get(api.value, "timezone") = Str("Asia/Tokyo")
  /\ api.result = Returned(Str("LT(T1)@Asia/Tokyo/fr"))

\* C35: after any sequence of Loader init and disconnect calls the loader
\* holds at most one open remote client, the one in Loader.redis: init quits
\* the client of the previous init before it creates a new one, a loader
\* whose config has no url is without a remote, after disconnect the loader
\* has no remote, and a load that starts without a remote issues no request.
C35_AtMostOneClient ==
  [][/\ loader'.open <= 1
     /\ loader'.open = (IF redis' = "none" THEN 0 ELSE 1)
     /\ ~loader'.url => redis' = "none"
     /\ loader'.open < loader.open => redis' = "none"
     /\ \A c \in Callers :
          (call[c].pc = "init" /\ call'[c].pc # "init" /\ redis = "none") =>
            /\ call'[c].pc = "resolve"
            /\ call'[c].requested = <<>>]_vars

\* a load has started and returned without a request after the loader, which
\* had a client, was initialised with a config that has no url
C35_Witness ==
  /\ redis = "none"
  /\ ~loader.url
  /\ \E c \in Callers :
       /\ call[c].pc = "resolve"
       /\ call[c].keys = <<"howdy">>
       /\ call[c].requested = <<>>
  /\ "howdy" \in DOMAIN cache

-----------------------------------------------------------------------------
(* The consulted locales *)

\* the request locale first and the default locale last, without duplicates
ConsultedLocales(locale) == IF locale = "en" THEN <<"en">> ELSE <<locale, "en">>

Elements(seq) == {seq[i] : i \in 1..Len(seq)}

\* C33: getLocales returns the request locale first and the default locale
\* "en" last, without duplicates; a load names exactly these locales as the
\* fields of its remote request, and the locales of its 'add' events and of
\* the cache entries it writes are exactly those of them for which the remote
\* answered a template.
C33_LocalesConsulted ==
  [][/\ \A l \in Locales : getLocales(l) = ConsultedLocales(l)
     /\ \A c \in Callers :
          LET locales == ConsultedLocales(call[c].locale)
              unknown == call[c].requested
              added == call'[c].added
              answered == {l \in Elements(locales) :
                             \E i \in 1..Len(unknown) : InRemote(unknown[i], l)}
          IN /\ (call[c].pc = "init" /\ call'[c].pc = "remote") =>
                  call'[c].fields = locales
             /\ LoadsFromRemote(c) =>
                  /\ {added[n][2] : n \in 1..Len(added)} = answered
                  /\ \A k \in DOMAIN cache' :
                       DOMAIN cache'[k] \ (IF k \in DOMAIN cache THEN DOMAIN cache[k] ELSE {})
                         \subseteq answered
                  /\ \A l \in answered : \E k \in DOMAIN cache' : l \in DOMAIN cache'[k]]_vars

\* a load in locale "fr" has asked for the fields fr and en and has cached a
\* template of howdy under each of them
C33_Witness ==
  \E c \in Callers :
    /\ call[c].pc = "resolve"
    /\ call[c].locale = "fr"
    /\ call[c].fields = <<"fr", "en">>
    /\ {call[c].added[n][2] : n \in 1..Len(call[c].added)} = {"fr", "en"}
    /\ "howdy" \in DOMAIN cache
    /\ DOMAIN cache["howdy"] = {"fr", "en"}

-----------------------------------------------------------------------------
(* Loads against a Redis store that changes and a cache that is also set
   directly *)

\* the translate calls explored while the Redis store changes
LoadRequests ==
  {<<Howdy, "fr", Null>>, <<Arr(<<Howdy, HelloJohn>>), "fr", Null>>}

\* the config the test suite hands to Loader.init
UrlConfig == Obj(<< <<"url", Str("redis://localhost:6379")>> >>)

\* client.hset(key, locale, template): <<key, locale, template>>
Hsets == {<<"howdy", "fr", "Salut">>}

\* another Redis client sets a field of a hash
Hset(key, locale, template) ==
  /\ remote' = (key :> ((locale :> template)
                         @@ (IF key \in DOMAIN remote THEN remote[key] ELSE EmptyMap)))
                @@ remote
  /\ UNCHANGED <<config, language, logger, store, cache, redis, loader, call, helpers>>

NextLoad ==
  \/ \E c \in Callers, r \in LoadRequests : Translate(c, r[1], r[2], r[3])
  \/ \E c \in Callers : Walk(c)
  \/ \E c \in Callers : Reply(c)
  \/ \E c \in Callers : ReplyError(c)
  \/ \E c \in Callers : Resolve(c)
  \/ \E c \in Callers : Return(c)
  \/ \E r \in {"up", "down"} : LoaderInit(UrlConfig, r)
  \/ \E h \in Hsets : Hset(h[1], h[2], h[3])
  \/ Expire("howdy")
  \/ SetItemToCache("howdy", ("fr" :> "Hey"))

SpecLoad == Init /\ [][NextLoad]_vars

\* C36: a load whose remote call fails changes neither the cache nor the
\* engine catalog: it emits no 'add' event, writes no cache entry and adds
\* nothing to the catalog, not even the templates it took from the cache and
\* returns.
C36_FailedLoadChangesNothing ==
  [][\A c \in Callers :
       (call[c].pc = "remote" /\ redis = "down" /\ call'[c] # call[c]) =>
         /\ cache' = cache
         /\ store' = store
         /\ call'[c].added = <<>>
         /\ call'[c].translations = call[c].translations]_vars

\* a load whose remote call failed has returned the template the cache held
\* for howdy in "fr", and the catalog has no template for howdy in "fr"
C36_Witness ==
  \E c \in Callers :
    /\ call[c].pc = "resolve"
    /\ call[c].warned
    /\ call[c].added = <<>>
    /\ Under(call[c].translations, "fr", "howdy")
    /\ ~Under(store, "fr", "howdy")

\* C37: the catalog follows the remote after a cache miss: when a load
\* fetches, for a key and a locale, a template that the Redis hash of that
\* key holds in that locale, the catalog holds that template under
\* (locale, key) once the load has returned, whatever it held before, and the
\* translate the load belongs to outputs it for a node of that key without
\* placeholders.
C37_CatalogFollowsRemote ==
  [][\A c \in Callers :
       /\ LoadsFromRemote(c) =>
            \A n \in 1..Len(call'[c].added) :
              LET key == call'[c].added[n][1]
                  locale == call'[c].added[n][2]
                  template == call'[c].added[n][3]
              IN (/\ key \in DOMAIN remote
                  /\ locale \in DOMAIN remote[key]
                  /\ remote[key][locale] = template) =>
                   /\ Under(store', locale, key)
                   /\ store'[locale][key] = template
       /\ (Resolving(c) /\ call[c].object = Howdy /\ call[c].added # <<>>) =>
            \A n \in 1..Len(call[c].added) :
              (/\ call[c].added[n][1] = "howdy"
               /\ call[c].added[n][2] = call[c].locale) =>
                call'[c].out = Str(call[c].added[n][3])]_vars

====
